---- MODULE Spec2Model ----
(***************************************************************************)
(* The OMP command processor of the manager daemon (src/omp.c).            *)
(*                                                                         *)
(* The XML parser (GLib's GMarkup) is the environment: it calls the three  *)
(* handlers omp_xml_handle_start_element, omp_xml_handle_text and          *)
(* omp_xml_handle_end_element, one call per action, and stops calling as   *)
(* soon as a handler has set a GError.  The handlers switch on the global  *)
(* client_state, stage data in the global command_data, and queue replies  *)
(* with send_to_client into the bounded buffer to_client.                  *)
(*                                                                         *)
(* Modelled commands: AUTHENTICATE, COMMANDS, GET_VERSION, HELP,           *)
(* DELETE_TASK, GET_TASKS, MODIFY_REPORT, VERIFY_AGENT and                 *)
(* VERIFY_REPORT_FORMAT; the client sends only these names and the names   *)
(* in OtherNames.  The management backend (manage.c) and the write         *)
(* callback (ompd.c) are not part of omp.c; they are modelled from the     *)
(* specification as nondeterministic results.                              *)
(*                                                                         *)
(* Abstractions: element names are their upper-case representatives        *)
(* (strcasecmp); message lengths are counted in buffer units (strlen);     *)
(* the members of the command_data union are kept as separate records.     *)
(***************************************************************************)
EXTENDS Integers, Sequences, FiniteSets, TLC

VARIABLES
  client_state,        \* omp.c:2925
  command_data,        \* omp.c:2284, the staged fields of the modelled commands
  current_credentials, \* the credentials staged by AUTHENTICATE
  to_client,           \* omp.c:2672, the bytes at positions 0 .. to_client_end - 1
  to_client_start,     \* omp.c:2677
  to_client_end,       \* omp.c:2681
  tasks,               \* backend: status of every task id
  owned,               \* backend: the tasks this process has forked a child for
  parameters,          \* backend: the name, comment and escalator of every task
  xml_error,           \* the GError the last handler left ("none" when unset)
  proc,                \* "running", "aborted" after abort () or a failed assert,
                       \* "spinning" inside the loop of send_to_client
  forked,              \* omp.c:2667
  current_error,       \* omp.c:2662, the status a forked child hands to the caller
  xml_context,         \* omp.c:2657: "ok", or "error" once a parse has failed
  input,               \* process_omp_client_input: whether a call is active, the
                       \* value the last call returned, and the number of the
                       \* session the process serves
  depth,               \* parser: number of elements currently open
  logged_in,           \* history: the backend accepted an AUTHENTICATE of this session
  origin,              \* history: client_state in which the open command root was opened
  last,                \* history: the handler call that led to this state
  sent,                \* history: the messages that call queued, in order
  calls,               \* history: the backend operations that call invoked
  log,                 \* history: the entries that call wrote with g_log
  wire,                \* history: the bytes the write callback wrote during that call
  stream,              \* history: the bytes queued before that call, then those of
                       \* the messages it queued
  write_error          \* history: in that call the write callback failed, a
                       \* checked send failed, a message was queued after the
                       \* callback had failed

vars == <<client_state, command_data, current_credentials, to_client,
          to_client_start, to_client_end, tasks, owned, parameters, xml_error,
          proc, depth, logged_in, origin, last, sent, calls, log, wire, stream,
          forked, current_error, xml_context, input, write_error>>

(***************************************************************************)
(* Bounds.                                                                 *)
(***************************************************************************)
\* Capacity of to_client, in message units.
TO_CLIENT_BUFFER_SIZE == 3
\* Deepest nesting of open elements the client sends.
MaxDepth == 4
\* Most write-callback invocations inside one handler call.
MaxWrites == 2
\* Longest text (in characters) the client puts into one element.
MaxTextLen == 1
\* Most sessions one process serves.
MaxSessions == 2
\* Longest message (in bytes) handed to send_to_client in SendSpec.
MaxMessageLen == 4
\* Most bytes handed to send_to_client over one behaviour of SendSpec.
MaxStream == 6

(***************************************************************************)
(* Values.                                                                 *)
(***************************************************************************)
\* The null pointer, as memset (data, 0, ...) and free_credentials leave it.
NULL == "<NULL>"

\* Identifiers the client passes in id attributes.
Ids == {"not-a-real-id", "id1"}

\* Task ids the backend may hold.
TaskIds == {"id1", "id2"}

\* Identifiers the client passes to the commands that start a task.
TaskRefs == Ids \cup TaskIds

\* The statuses in which a task is active.
ActiveStatuses == {"Requested", "Running", "DeleteRequested", "StopRequested"}

\* The report the backend creates for a run of a task.
ReportOf == [id1 |-> "report1", id2 |-> "report2"]

\* Ids under which the backend holds an agent, a report and a report format.
StaticIds == {"id1"}

\* Text chunks the parser delivers to omp_xml_handle_text.
TextChunks == {"", "u", "p"}

\* The one user the backend knows.
ValidCredentials == [username |-> "u", password |-> "p"]

\* Element names the client sends besides the ones the current state accepts.
OtherNames == {"BOGUS", "GET_TASKS"}

(***************************************************************************)
(* Response texts, omp.c:453-553 and 3095-3189.                            *)
(***************************************************************************)
STATUS_ERROR_SYNTAX == "400"

STATUS_ERROR_MISSING == "404"

STATUS_ERROR_AUTH_FAILED == "400"

STATUS_ERROR_AUTH_FAILED_TEXT == "Authentication failed"

STATUS_OK == "200"

STATUS_OK_TEXT == "OK"

STATUS_OK_CREATED == "201"

STATUS_OK_REQUESTED == "202"

STATUS_OK_REQUESTED_TEXT == "OK, request submitted"

STATUS_INTERNAL_ERROR == "500"

STATUS_ERROR_BUSY == "409"

STATUS_INTERNAL_ERROR_TEXT == "Internal error"

\* A queued message.  form: "empty" <tag .../>, "open" <tag ...>, "close" </tag>,
\* "full" <tag ...>...</tag>, "body" content between an open and a close tag.
Message(tag, status, text, form) ==
  [tag |-> tag, status |-> status, status_text |-> text, form |-> form]

XML_ERROR_SYNTAX_as_internal(tag, text) ==
  Message(tag \o "_response", STATUS_INTERNAL_ERROR, text, "empty")

XML_ERROR_SYNTAX(tag, text) ==
  Message(tag \o "_response", STATUS_ERROR_SYNTAX, text, "empty")

\* XML_ERROR_AUTH_FAILED with the status of an internal error.
XML_ERROR_AUTH_FAILED_as_internal(tag) ==
  Message(tag \o "_response", STATUS_INTERNAL_ERROR,
          STATUS_ERROR_AUTH_FAILED_TEXT, "empty")

XML_ERROR_AUTH_FAILED(tag) ==
  Message(tag \o "_response", STATUS_ERROR_AUTH_FAILED,
          STATUS_ERROR_AUTH_FAILED_TEXT, "empty")

\* XML_OK with the status of XML_OK_REQUESTED.
XML_OK_as_requested(tag) ==
  Message(tag \o "_response", STATUS_OK_REQUESTED, STATUS_OK_TEXT, "empty")

XML_OK(tag) == Message(tag \o "_response", STATUS_OK, STATUS_OK_TEXT, "empty")

\* XML_OK_REQUESTED with the status of XML_OK.
XML_OK_REQUESTED_as_ok(tag) ==
  Message(tag \o "_response", STATUS_OK, STATUS_OK_REQUESTED_TEXT, "empty")

XML_OK_REQUESTED(tag) ==
  Message(tag \o "_response", STATUS_OK_REQUESTED, STATUS_OK_REQUESTED_TEXT, "empty")

XML_INTERNAL_ERROR(tag) ==
  Message(tag \o "_response", STATUS_INTERNAL_ERROR, STATUS_INTERNAL_ERROR_TEXT, "empty")

\* The reply to a start or resume that forked, without the id of the report.
StartedMessage_without_report(tag, report_id) ==
  [tag |-> tag \o "_response", status |-> STATUS_OK_REQUESTED,
   status_text |-> STATUS_OK_REQUESTED_TEXT, form |-> "full", report_id |-> NULL]

\* The reply to a start or resume that forked, omp.c:12275-12283.
StartedMessage(tag, report_id) ==
  [tag |-> tag \o "_response", status |-> STATUS_OK_REQUESTED,
   status_text |-> STATUS_OK_REQUESTED_TEXT, form |-> "full",
   report_id |-> report_id]

\* XML_OK_CREATED_ID formatted with the id of the new resource.
XML_OK_CREATED_ID(tag, id) ==
  [tag |-> tag \o "_response", status |-> STATUS_OK_CREATED,
   status_text |-> "OK, resource created", form |-> "empty", id |-> id]

\* "<tag_response status=200 status_text=OK>" and its closing tag.
ResponseOpen(tag) == Message(tag \o "_response", STATUS_OK, STATUS_OK_TEXT, "open")

ResponseClose(tag) == Message(tag \o "_response", "", "", "close")

ResponseBody(text) == Message("", "", text, "body")

\* The message send_element_error_to_client formats.
ElementErrorMessage(command, element) ==
  Message(command \o "_response", STATUS_ERROR_SYNTAX,
          "Bogus element: " \o element, "empty")

\* send_find_error_to_client without the quotes around the id.
FindErrorMessage_unquoted(command, type, id) ==
  Message(command \o "_response", STATUS_ERROR_MISSING,
          "Failed to find " \o type \o " " \o id, "empty")

\* The message send_find_error_to_client formats.
FindErrorMessage(command, type, id) ==
  Message(command \o "_response", STATUS_ERROR_MISSING,
          "Failed to find " \o type \o " '" \o id \o "'", "empty")

\* strlen of a queued message, in buffer units.
strlen(msg) == IF msg.form = "full" THEN 2 ELSE 1

(***************************************************************************)
(* The staging area command_data, omp.c:2235-2300.                         *)
(***************************************************************************)
\* The int fields of get_tasks_data_t; every other field is a char pointer.
IntFields == {<<"create_config", "import">>, <<"create_task", "task">>,
              <<"get_tasks", "apply_overrides">>, <<"get_tasks", "details">>,
              <<"get_tasks", "rcfile">>, <<"get_tasks", "sort_order">>}

\* The fields of the modelled members of command_data_t.
Fields ==
  {<<"create_config", "comment">>, <<"create_config", "copy">>,
   <<"create_config", "name">>, <<"create_config", "rcfile">>,
   <<"create_task", "config_id">>, <<"create_task", "target_id">>,
   <<"delete_task", "task_id">>,
   <<"get_tasks", "task_id">>, <<"get_tasks", "sort_field">>,
   <<"modify_report", "comment">>, <<"modify_report", "report_id">>,
   <<"modify_task", "comment">>, <<"modify_task", "escalator_id">>,
   <<"modify_task", "name">>, <<"modify_task", "task_id">>,
   <<"resume_or_start_task", "task_id">>, <<"resume_stopped_task", "task_id">>,
   <<"start_task", "task_id">>, <<"stop_task", "task_id">>,
   <<"verify_agent", "agent_id">>,
   <<"verify_report_format", "report_format_id">>} \cup IntFields

\* What memset (data, 0, sizeof (...)) leaves in a field.
Zero(f) == IF f \in IntFields THEN "0" ELSE NULL

\* command_data_init: the whole union zeroed.
command_data_init == [f \in Fields |-> Zero(f)]

\* <member>_data_reset: free the strings and zero the member.
data_reset(data, member) ==
  [f \in Fields |-> IF f[1] = member THEN Zero(f) ELSE data[f]]

\* An assignment in place of the append.
append_string_replacing(var, string) == string

\* openvas_append_string / openvas_append_text: start from "" when unset.
append_string(var, string) == IF var = NULL THEN string ELSE var \o string

\* find_attribute: whether the element carries the attribute.
find_attribute(attrs, name) == name \in DOMAIN attrs

\* append_attribute: append the attribute's value to a staged string, if present.
append_attribute(attrs, name, var) ==
  IF find_attribute(attrs, name) THEN append_string(var, attrs[name]) ELSE var

\* strcmp (a, b) as a truth value: "0" when equal, "1" otherwise.
strcmp(a, b) == IF a = b THEN "0" ELSE "1"

\* atoi on the attribute values the client sends.
atoi(a) == IF a = "1" THEN "1" ELSE "0"

\* free_credentials: both strings released and set to NULL.
free_credentials_keeping_password == [username |-> NULL, password |-> "p"]

free_credentials == [username |-> NULL, password |-> NULL]

(***************************************************************************)
(* The output buffer, omp.c:2951-3002.                                     *)
(***************************************************************************)
\* The write callback of the host, by the outcome the environment picks:
\* "all" wrote everything queued (0), "part" wrote as much as the client
\* accepted (-2), "error" failed (-1).
write_to_client(outcome, s, e) ==
  CASE outcome = "all"  -> [rc |-> 0, start |-> 0, end |-> 0]
    [] outcome = "part" -> [rc |-> -2, start |-> IF e - s > 1 THEN s + 1 ELSE s, end |-> e]
    [] OTHER            -> [rc |-> -1, start |-> s, end |-> e]

\* The outcomes of the write callback.
WriteOutcomes == {"all", "part", "error"}

\* The bytes the callback hands to the client: the queued bytes it passes over.
written(outcome, buf, s, e) ==
  LET r == write_to_client(outcome, s, e)
  IN  IF r.rc = 0 THEN SubSeq(buf, s + 1, e) ELSE SubSeq(buf, s + 1, r.start)

\* The bytes of a reply: every unit of a reply is the byte "x".
bytes(msg) == [i \in 1..strlen(msg) |-> "x"]

\* The test of the loop of send_to_client: too little space in to_client for
\* the n bytes still to queue.
always_room(e, n) == FALSE

too_little_space(e, n) == TO_CLIENT_BUFFER_SIZE - e < n

\* memmove (to_client + to_client_end, msg, length), with the last byte of msg
\* copied in place of its first.
memmove_last(buf, msg, length) ==
  buf \o [i \in 1..length |-> IF i = 1 THEN msg[Len(msg)] ELSE msg[i]]

\* memmove (to_client + to_client_end, msg, length).
memmove(buf, msg, length) == buf \o SubSeq(msg, 1, length)

\* send_to_client for the bytes msg, the buffer holding buf with cursors
\* (s, e), as the set of its outcomes over the callback's results; k is the
\* number of callback calls followed.  ret is "TRUE" when the callback failed,
\* "FALSE" when the message is queued, and "spin" when an iteration of the loop
\* has changed nothing (the callback returned -2 without writing and there is
\* no room to copy into): the loop calls the callback again.  wire is what the
\* callback wrote during the call.
RECURSIVE send_to_client(_, _, _, _, _)
send_to_client(msg, buf, s, e, k) ==
  IF too_little_space(e, Len(msg))
    THEN IF k = 0
           THEN {}
           ELSE UNION {LET r == write_to_client(outcome, s, e)
                           out == written(outcome, buf, s, e)
                           kept == IF r.rc = 0 THEN << >> ELSE buf
                           length == TO_CLIENT_BUFFER_SIZE - r.end
                       IN  IF r.rc = -1
                             THEN {[ret |-> "TRUE", to_client |-> kept,
                                    start |-> r.start, end |-> r.end, wire |-> out]}
                           ELSE IF length > Len(msg)
                             THEN {[ret |-> "FALSE", to_client |-> memmove(kept, msg, Len(msg)),
                                    start |-> r.start, end |-> r.end + Len(msg),
                                    wire |-> out]}
                           ELSE IF length = 0 /\ r.start = s /\ r.end = e
                             THEN {[ret |-> "spin", to_client |-> kept,
                                    start |-> r.start, end |-> r.end, wire |-> out]}
                           ELSE {[x EXCEPT !.wire = out \o @]
                                 : x \in send_to_client(SubSeq(msg, length + 1, Len(msg)),
                                                        memmove(kept, msg, length),
                                                        r.start, r.end + length, k - 1)}
                       : outcome \in WriteOutcomes}
    ELSE {[ret |-> "FALSE", to_client |-> memmove(buf, msg, Len(msg)), start |-> s,
           end |-> e + Len(msg), wire |-> << >>]}

\* The sends of one handler call, in order, as the set of their outcomes.  A
\* checked send that fails ends the call (SEND_TO_CLIENT_OR_FAIL); an unchecked
\* one is skipped.  queued lists the messages that reached the buffer, fatal
\* tells whether the callback failed and after counts the messages queued
\* after it failed.
RECURSIVE SendAll(_, _, _, _, _, _)
SendAll(msgs, unchecked, i, buf, s, e) ==
  IF i > Len(msgs)
    THEN {[ret |-> "FALSE", to_client |-> buf, start |-> s, end |-> e,
           wire |-> << >>, queued |-> << >>, fatal |-> FALSE, after |-> 0]}
    ELSE UNION {IF r.ret = "spin" \/ (r.ret = "TRUE" /\ i \notin unchecked)
                  THEN {[ret |-> r.ret, to_client |-> r.to_client, start |-> r.start,
                         end |-> r.end, wire |-> r.wire, queued |-> << >>,
                         fatal |-> r.ret = "TRUE", after |-> 0]}
                  ELSE {[rest EXCEPT
                           !.wire = r.wire \o @,
                           !.queued = IF r.ret = "FALSE" THEN <<msgs[i]>> \o @ ELSE @,
                           !.fatal = (r.ret = "TRUE") \/ @,
                           !.after = IF r.ret = "TRUE" THEN Len(rest.queued) ELSE @]
                        : rest \in SendAll(msgs, unchecked, i + 1, r.to_client,
                                           r.start, r.end)}
                : r \in send_to_client(bytes(msgs[i]), buf, s, e, MaxWrites)}

(***************************************************************************)
(* Handler calls.  A handler is translated into the set of its executions; *)
(* one execution is a record: `pre` the program state after the effects    *)
(* that precede its sends, `msgs` the messages it sends in order,          *)
(* `unchecked` the indices of sends whose result it ignores, `post` the    *)
(* program state when every checked send succeeded, `branch` the branch    *)
(* of the code it took and `calls` the backend operations it invoked.      *)
(* When a checked send fails the handler calls error_send_to_client and    *)
(* returns, so the call ends in `pre` with the parse error set.            *)
(***************************************************************************)
\* The globals the handlers read and write.
Prog ==
  [client_state |-> client_state, command_data |-> command_data,
   current_credentials |-> current_credentials, tasks |-> tasks, owned |-> owned,
   parameters |-> parameters, xml_error |-> xml_error, proc |-> proc, forked |-> forked,
   current_error |-> current_error]

Plan(pre, msgs, post, branch, called) ==
  [pre |-> pre, msgs |-> msgs, unchecked |-> {}, post |-> post,
   branch |-> branch, calls |-> called, log |-> << >>]

\* set_client_state that enters CLIENT_AUTHENTIC whatever the state asked for.
set_client_state_authentic(S, state) == [S EXCEPT !.client_state = "CLIENT_AUTHENTIC"]

set_client_state(S, state) == [S EXCEPT !.client_state = state]

\* g_set_error: the first error set stays.
g_set_error(S, code) == [S EXCEPT !.xml_error = IF @ = "none" THEN code ELSE @]

\* error_send_to_client that sets no error.
error_send_to_client_ignored(S) == S

\* error_send_to_client: G_MARKUP_ERROR_PARSE, "Manager out of space for reply".
error_send_to_client(S) == g_set_error(S, "PARSE")

\* abort (): the process ends without a reply.
abort(S) == Plan([S EXCEPT !.proc = "aborted"], << >>,
                 [S EXCEPT !.proc = "aborted"], "abort", {})

\* assert (0): the process aborts when assertions are compiled in, and the
\* handler goes on with `continue` when they are not (NDEBUG).
assert_0(S, continue) == {[abort(S) EXCEPT !.branch = "assert"], continue}

\* The reply to an element the state does not accept, as every command state
\* sends it: the error for the command, then `fallback` and the parse error.
bogus_element(S, command, element_name, fallback) ==
  Plan(S, <<ElementErrorMessage(command, element_name)>>,
       g_set_error(fallback, "UNKNOWN_ELEMENT"), "bogus_element", {})

\* The command each command state reports its errors for.
OwningCommand ==
  [CLIENT_AUTHENTICATE |-> "authenticate",
   CLIENT_AUTHENTICATE_CREDENTIALS |-> "authenticate",
   CLIENT_C_C_GCR |-> "create_config",
   CLIENT_CREATE_CONFIG |-> "create_config",
   CLIENT_CREATE_TASK |-> "create_task",
   CLIENT_DELETE_TASK |-> "delete_task",
   CLIENT_GET_TASKS |-> "get_tasks",
   CLIENT_HELP |-> "help",
   CLIENT_MODIFY_REPORT |-> "modify_report",
   CLIENT_MODIFY_TASK |-> "modify_task",
   CLIENT_RESUME_OR_START_TASK |-> "resume_or_start_task",
   CLIENT_RESUME_STOPPED_TASK |-> "resume_stopped_task",
   CLIENT_START_TASK |-> "start_task",
   CLIENT_STOP_TASK |-> "stop_task",
   CLIENT_VERIFY_AGENT |-> "verify_agent",
   CLIENT_VERIFY_REPORT_FORMAT |-> "verify_report_format"]

\* Start of an element in CLIENT_TOP (after the GET_VERSION test) and in
\* CLIENT_COMMANDS, omp.c:3403-3435.
start_commands(S, element_name) ==
  IF element_name = "AUTHENTICATE"
    THEN {Plan(S, << >>, set_client_state(S, "CLIENT_AUTHENTICATE"), "accept", {})}
  ELSE IF element_name = "COMMANDS"
    THEN {Plan(S, <<ResponseOpen("commands")>>,
               set_client_state(S, "CLIENT_COMMANDS"), "accept", {})}
  ELSE {[Plan(S,
              <<XML_ERROR_SYNTAX("omp", "First command must be AUTHENTICATE, COMMANDS or GET_VERSION")>>
                \o (IF S.client_state = "CLIENT_COMMANDS"
                      THEN <<ResponseClose("commands")>> ELSE << >>),
              g_set_error(S, "UNKNOWN_ELEMENT"), "must_authenticate", {})
          EXCEPT !.unchecked = {2}]}

\* The attributes GET_TASKS stages, omp.c:4062-4097.
start_get_tasks(data, attrs) ==
  [data EXCEPT
     ![<<"get_tasks", "task_id">>] = append_attribute(attrs, "task_id", @),
     ![<<"get_tasks", "rcfile">>] =
        IF find_attribute(attrs, "rcfile") THEN atoi(attrs["rcfile"]) ELSE "0",
     ![<<"get_tasks", "details">>] =
        IF find_attribute(attrs, "details") THEN strcmp(attrs["details"], "0") ELSE "0",
     ![<<"get_tasks", "apply_overrides">>] =
        IF find_attribute(attrs, "apply_overrides")
          THEN strcmp(attrs["apply_overrides"], "0") ELSE "0",
     ![<<"get_tasks", "sort_field">>] = append_attribute(attrs, "sort_field", @),
     ![<<"get_tasks", "sort_order">>] =
        IF find_attribute(attrs, "sort_order")
          THEN strcmp(attrs["sort_order"], "descending") ELSE "1"]

\* start_with_id reporting a missing attribute when the element opens.
start_with_id_eager(S, member, attribute, attrs, state) ==
  {Plan(S,
        IF find_attribute(attrs, attribute) THEN << >>
        ELSE <<XML_ERROR_SYNTAX(member, "DELETE_TASK requires a task_id attribute")>>,
        [S EXCEPT !.client_state = state,
                  !.command_data[<<member, attribute>>] =
                     append_attribute(attrs, attribute, @)],
        "accept", {})}

\* A command that stages one id attribute and enters its root state.
start_with_id(S, member, attribute, attrs, state) ==
  {Plan(S, << >>,
        [S EXCEPT !.client_state = state,
                  !.command_data[<<member, attribute>>] =
                     append_attribute(attrs, attribute, @)],
        "accept", {})}

\* The id of the task make_task creates.
NewTask == "id3"

\* make_task (NULL, 0, NULL): a task without a name enters the backend, and
\* create_task_data->task refers to it.
make_task(S) ==
  [S EXCEPT !.tasks = (NewTask :> "New") @@ @,
            !.parameters = (NewTask :> [NAME |-> NULL, COMMENT |-> NULL,
                                        escalator |-> "0"]) @@ @,
            !.command_data[<<"create_task", "task">>] = NewTask]

\* Start of an element in CLIENT_AUTHENTIC and CLIENT_AUTHENTIC_COMMANDS,
\* omp.c:3437-4208.  save_tasks is a backend call that may fail.
start_authentic(S, element_name, attrs) ==
  IF element_name = "AUTHENTICATE"
    THEN {[abort(S) EXCEPT !.calls = {"save_tasks"}],
          Plan(S, << >>,
               [S EXCEPT !.client_state = "CLIENT_AUTHENTICATE",
                         !.current_credentials = free_credentials],
               "accept", {"save_tasks"})}
  ELSE IF element_name = "COMMANDS"
    THEN {Plan(S, <<ResponseOpen("commands")>>,
               set_client_state(S, "CLIENT_AUTHENTIC_COMMANDS"), "accept", {})}
  ELSE IF element_name = "CREATE_CONFIG"
    THEN {Plan(S, << >>,
               [S EXCEPT !.client_state = "CLIENT_CREATE_CONFIG",
                         !.command_data[<<"create_config", "comment">>] =
                            append_string(@, ""),
                         !.command_data[<<"create_config", "name">>] =
                            append_string(@, "")],
               "accept", {})}
  ELSE IF element_name = "CREATE_TASK"
    THEN {Plan(S, << >>, set_client_state(make_task(S), "CLIENT_CREATE_TASK"),
               "accept", {"make_task"})}
  ELSE IF element_name = "DELETE_TASK"
    THEN start_with_id(S, "delete_task", "task_id", attrs, "CLIENT_DELETE_TASK")
  ELSE IF element_name = "GET_TASKS"
    THEN {Plan(S, << >>,
               [S EXCEPT !.client_state = "CLIENT_GET_TASKS",
                         !.command_data = start_get_tasks(@, attrs)],
               "accept", {})}
  ELSE IF element_name = "GET_VERSION"
    THEN {Plan(S, << >>, set_client_state(S, "CLIENT_GET_VERSION_AUTHENTIC"),
               "accept", {})}
  ELSE IF element_name = "HELP"
    THEN {Plan(S, << >>, set_client_state(S, "CLIENT_HELP"), "accept", {})}
  ELSE IF element_name = "MODIFY_REPORT"
    THEN start_with_id(S, "modify_report", "report_id", attrs, "CLIENT_MODIFY_REPORT")
  ELSE IF element_name = "MODIFY_TASK"
    THEN start_with_id(S, "modify_task", "task_id", attrs, "CLIENT_MODIFY_TASK")
  ELSE IF element_name = "RESUME_OR_START_TASK"
    THEN start_with_id(S, "resume_or_start_task", "task_id", attrs,
                       "CLIENT_RESUME_OR_START_TASK")
  \* The id is staged through resume_paused_task_data, the member of the union
  \* that shares its storage with resume_stopped_task_data.
  ELSE IF element_name = "RESUME_STOPPED_TASK"
    THEN start_with_id(S, "resume_stopped_task", "task_id", attrs,
                       "CLIENT_RESUME_STOPPED_TASK")
  ELSE IF element_name = "START_TASK"
    THEN start_with_id(S, "start_task", "task_id", attrs, "CLIENT_START_TASK")
  ELSE IF element_name = "STOP_TASK"
    THEN start_with_id(S, "stop_task", "task_id", attrs, "CLIENT_STOP_TASK")
  ELSE IF element_name = "VERIFY_AGENT"
    THEN start_with_id(S, "verify_agent", "agent_id", attrs, "CLIENT_VERIFY_AGENT")
  ELSE IF element_name = "VERIFY_REPORT_FORMAT"
    THEN start_with_id(S, "verify_report_format", "report_format_id", attrs,
                       "CLIENT_VERIFY_REPORT_FORMAT")
  ELSE {Plan(S, <<XML_ERROR_SYNTAX("omp", "Bogus command name")>>,
             g_set_error(S, "UNKNOWN_ELEMENT"), "bogus_command", {})}

\* Start of an element inside AUTHENTICATE, omp.c:4210-4255: a bogus element
\* frees the credentials and falls back to CLIENT_TOP.
start_authenticate(S, element_name) ==
  LET bogus == bogus_element(S, "authenticate", element_name,
                             [S EXCEPT !.client_state = "CLIENT_TOP",
                                       !.current_credentials = free_credentials])
  IN  IF S.client_state = "CLIENT_AUTHENTICATE"
        THEN IF element_name = "CREDENTIALS"
               THEN {Plan(S, << >>,
                          [S EXCEPT !.client_state = "CLIENT_AUTHENTICATE_CREDENTIALS",
                                    !.current_credentials.password = append_string(@, "")],
                          "accept", {})}
               ELSE {bogus}
        ELSE IF element_name = "USERNAME"
               THEN {Plan(S, << >>,
                          set_client_state(S, "CLIENT_AUTHENTICATE_CREDENTIALS_USERNAME"),
                          "accept", {})}
             ELSE IF element_name = "PASSWORD"
               THEN {Plan(S, << >>,
                          set_client_state(S, "CLIENT_AUTHENTICATE_CREDENTIALS_PASSWORD"),
                          "accept", {})}
             ELSE {bogus}

\* The children of CREATE_CONFIG (omp.c:5216-5233) and of MODIFY_TASK
\* (omp.c:5114-5129) and the states they enter.  The subtree of
\* GET_CONFIGS_RESPONSE and the children RCFILE, SCHEDULE and FILE of
\* MODIFY_TASK are outside the alphabet of the client.
Children ==
  [CLIENT_CREATE_CONFIG |->
     [COMMENT |-> "CLIENT_CREATE_CONFIG_COMMENT", COPY |-> "CLIENT_CREATE_CONFIG_COPY",
      GET_CONFIGS_RESPONSE |-> "CLIENT_C_C_GCR", NAME |-> "CLIENT_CREATE_CONFIG_NAME",
      RCFILE |-> "CLIENT_CREATE_CONFIG_RCFILE"],
   CLIENT_CREATE_TASK |->
     [CONFIG |-> "CLIENT_CREATE_TASK_CONFIG", NAME |-> "CLIENT_CREATE_TASK_NAME",
      TARGET |-> "CLIENT_CREATE_TASK_TARGET"],
   CLIENT_MODIFY_TASK |->
     [COMMENT |-> "CLIENT_MODIFY_TASK_COMMENT",
      ESCALATOR |-> "CLIENT_MODIFY_TASK_ESCALATOR",
      NAME |-> "CLIENT_MODIFY_TASK_NAME"]]

\* Start of a child of CREATE_CONFIG, of CREATE_TASK or of MODIFY_TASK: COMMENT
\* of MODIFY_TASK stages an empty comment; ESCALATOR, CONFIG and TARGET stage
\* their id attribute.
start_child(S, element_name, attrs) ==
  LET state == Children[S.client_state][element_name]
      data == S.command_data
  IN  {Plan(S, << >>,
            [S EXCEPT
               !.client_state = state,
               !.command_data =
                  IF state = "CLIENT_MODIFY_TASK_COMMENT"
                    THEN [data EXCEPT ![<<"modify_task", "comment">>] =
                                         append_string(@, "")]
                  ELSE IF state = "CLIENT_MODIFY_TASK_ESCALATOR"
                    THEN [data EXCEPT ![<<"modify_task", "escalator_id">>] =
                                         append_attribute(attrs, "id", @)]
                  ELSE IF state = "CLIENT_CREATE_TASK_CONFIG"
                    THEN [data EXCEPT ![<<"create_task", "config_id">>] =
                                         append_attribute(attrs, "id", @)]
                  ELSE IF state = "CLIENT_CREATE_TASK_TARGET"
                    THEN [data EXCEPT ![<<"create_task", "target_id">>] =
                                         append_attribute(attrs, "id", @)]
                  ELSE data],
            "accept", {})}

\* omp_xml_handle_start_element, omp.c:3381-6431, for the modelled states.
omp_xml_handle_start_element(S, element_name, attrs) ==
  LET state == S.client_state
  IN  IF state = "CLIENT_TOP" /\ element_name = "GET_VERSION"
        THEN {Plan(S, << >>, set_client_state(S, "CLIENT_GET_VERSION"), "accept", {})}
      ELSE IF state \in {"CLIENT_TOP", "CLIENT_COMMANDS"}
        THEN start_commands(S, element_name)
      ELSE IF state \in {"CLIENT_AUTHENTIC", "CLIENT_AUTHENTIC_COMMANDS"}
        THEN start_authentic(S, element_name, attrs)
      ELSE IF state \in {"CLIENT_AUTHENTICATE", "CLIENT_AUTHENTICATE_CREDENTIALS"}
        THEN start_authenticate(S, element_name)
      ELSE IF state = "CLIENT_MODIFY_REPORT" /\ element_name = "COMMENT"
        THEN {Plan(S, << >>, set_client_state(S, "CLIENT_MODIFY_REPORT_COMMENT"),
                   "accept", {})}
      ELSE IF state \in DOMAIN Children /\ element_name \in DOMAIN Children[state]
        THEN start_child(S, element_name, attrs)
      ELSE IF state \in {"CLIENT_C_C_GCR", "CLIENT_CREATE_CONFIG",
                         "CLIENT_CREATE_TASK", "CLIENT_DELETE_TASK", "CLIENT_GET_TASKS", "CLIENT_HELP",
                         "CLIENT_MODIFY_REPORT", "CLIENT_MODIFY_TASK",
                         "CLIENT_RESUME_OR_START_TASK",
                         "CLIENT_RESUME_STOPPED_TASK", "CLIENT_START_TASK",
                         "CLIENT_STOP_TASK", "CLIENT_VERIFY_AGENT",
                         "CLIENT_VERIFY_REPORT_FORMAT"}
        THEN {bogus_element(S, OwningCommand[state], element_name,
                            set_client_state(S, "CLIENT_AUTHENTIC"))}
      \* default: the state has no case in the switch (omp.c:6420-6427).
      ELSE assert_0(S, Plan(S, << >>, g_set_error(S, "PARSE"), "default", {}))

\* The staged string the text of a child of CREATE_CONFIG (omp.c:14406-14417)
\* and of MODIFY_TASK (omp.c:14367-14372) is appended to.
StagedText ==
  [CLIENT_CREATE_CONFIG_COMMENT |-> <<"create_config", "comment">>,
   CLIENT_CREATE_CONFIG_COPY |-> <<"create_config", "copy">>,
   CLIENT_CREATE_CONFIG_NAME |-> <<"create_config", "name">>,
   CLIENT_CREATE_CONFIG_RCFILE |-> <<"create_config", "rcfile">>,
   CLIENT_MODIFY_TASK_COMMENT |-> <<"modify_task", "comment">>,
   CLIENT_MODIFY_TASK_NAME |-> <<"modify_task", "name">>]

\* omp_xml_handle_text, omp.c:14293-14746, for the modelled states: the text
\* is appended to the staged string of the state, and passed over elsewhere.
omp_xml_handle_text(S, text) ==
  IF text = "" THEN S
  ELSE IF S.client_state = "CLIENT_AUTHENTICATE_CREDENTIALS_USERNAME"
    THEN [S EXCEPT !.current_credentials.username = append_string(@, text)]
  ELSE IF S.client_state = "CLIENT_AUTHENTICATE_CREDENTIALS_PASSWORD"
    THEN [S EXCEPT !.current_credentials.password = append_string(@, text)]
  ELSE IF S.client_state = "CLIENT_MODIFY_REPORT_COMMENT"
    THEN [S EXCEPT !.command_data[<<"modify_report", "comment">>] =
                      append_string(@, text)]
  ELSE IF S.client_state \in DOMAIN StagedText
    THEN [S EXCEPT !.command_data[StagedText[S.client_state]] =
                      append_string(@, text)]
  \* append_to_task_name writes to the task in the backend.
  ELSE IF S.client_state = "CLIENT_CREATE_TASK_NAME"
    THEN [S EXCEPT !.parameters[S.command_data[<<"create_task", "task">>]].NAME =
                      append_string(@, text)]
  ELSE S

\* The staged string a text in this state is appended to (NULL when none).
TextTarget(S) ==
  IF S.client_state = "CLIENT_AUTHENTICATE_CREDENTIALS_USERNAME"
    THEN S.current_credentials.username
  ELSE IF S.client_state = "CLIENT_AUTHENTICATE_CREDENTIALS_PASSWORD"
    THEN S.current_credentials.password
  ELSE IF S.client_state = "CLIENT_MODIFY_REPORT_COMMENT"
    THEN S.command_data[<<"modify_report", "comment">>]
  ELSE IF S.client_state \in DOMAIN StagedText
    THEN S.command_data[StagedText[S.client_state]]
  ELSE IF S.client_state = "CLIENT_CREATE_TASK_NAME"
    THEN S.parameters[S.command_data[<<"create_task", "task">>]].NAME
  ELSE NULL

(***************************************************************************)
(* The management backend, as the specification describes it: the result   *)
(* sets of the operations the modelled handlers call.                      *)
(***************************************************************************)
\* authenticate: 0 accepted, 1 rejected, -1 error while authenticating.
authenticate(credentials) ==
  (IF credentials = ValidCredentials THEN {0} ELSE {1}) \cup {-1}

\* load_tasks: 0, or -1 when the persisted task state cannot be loaded.
load_tasks == {0, -1}

\* find_task and the other find_<resource>: `failed` is the lookup error, and
\* `found` tells whether the lookup returned a resource.
find_resource(exists) ==
  {[failed |-> TRUE, found |-> FALSE], [failed |-> FALSE, found |-> exists]}

find_task(t, id) ==
  find_resource(id \in TaskIds /\ t[IF id \in TaskIds THEN id ELSE "id1"] # "absent")

find_static(id) == find_resource(id \in StaticIds)

\* The one config the backend holds has the id "u".
find_config(id) == find_resource(id = "u")

\* create_config: 0 created, 1 a config of the name exists, -1 error, -2 the
\* name is empty, -3 and -4 an error in the imported selectors or preferences.
create_config == {0, 1, -1, -2, -3, -4}

\* create_config_rc: 0 created, 1 a config of the name exists, -1 error.
create_config_rc == {0, 1, -1}

\* copy_config: 0 created, 1 a config of the name exists, -1 error.
copy_config == {0, 1, -1}

\* set_task_parameter: 0 and the parameter is set, or -1 and it is not.
set_task_parameter(P, id, parameter, value) ==
  {[rc |-> 0, parameters |-> [P EXCEPT ![id][parameter] = value]],
   [rc |-> -1, parameters |-> P]}

\* request_delete_task: 0 deleted, 1 deletion requested of an active task,
\* 2 the reserved task, -1 the scanner queue is full.
request_delete_task(t, id) ==
  CASE t[id] \in {"Running", "Requested", "StopRequested"} -> {[rc |-> 1, tasks |-> [t EXCEPT ![id] = "DeleteRequested"]],
                              [rc |-> -1, tasks |-> t]}
    [] t[id] = "Reserved" -> {[rc |-> 2, tasks |-> t]}
    [] t[id] = "DeleteRequested" -> {[rc |-> 1, tasks |-> t]}
    [] OTHER              -> {[rc |-> 0, tasks |-> [t EXCEPT ![id] = "absent"]]}

\* Whether the process has forked a child for a task that has not finished.
never_outstanding(o) == FALSE

fork_outstanding(o) == o # {}

\* The statuses a task must not have to run.
task_is_active(status) == status \in ActiveStatuses

\* What start_task and the resume operations do once the task may run: the
\* report is created and the child forked.  0 is the parent, 2 and -10 are the
\* forked child ending well and in error, -3 is the failure to create the
\* report.
run_task(t, o, id) ==
  LET forked_off == [tasks |-> [t EXCEPT ![id] = "Requested"], owned |-> o \cup {id},
                     report_id |-> ReportOf[id]]
  IN  {[rc |-> rc] @@ forked_off : rc \in {0, 2, -10}}
      \cup {[rc |-> -3, tasks |-> t, owned |-> o, report_id |-> NULL]}

\* The result that leaves the backend as it is.
refused(t, o, rc) == {[rc |-> rc, tasks |-> t, owned |-> o, report_id |-> NULL]}

\* start_task: -6 a fork of this process is outstanding, 1 the task is active.
start_task(t, o, id) ==
  IF fork_outstanding(o) THEN refused(t, o, -6)
  ELSE IF task_is_active(t[id]) THEN refused(t, o, 1)
  ELSE run_task(t, o, id)

\* resume_stopped_task: 22 the task is not stopped, -1 internal error.
resume_stopped_task(t, o, id) ==
  IF fork_outstanding(o) THEN refused(t, o, -6)
  ELSE IF t[id] # "Stopped" THEN refused(t, o, 22)
  ELSE run_task(t, o, id) \cup refused(t, o, -1)

\* resume_or_start_task: resume a stopped task, start any other.
resume_or_start_task(t, o, id) ==
  IF t[id] = "Stopped" THEN resume_stopped_task(t, o, id) ELSE start_task(t, o, id)

\* stop_task: 1 the scanner is asked to stop a task it runs, 0 a task no
\* scanner runs is stopped at once, -1 the scanner queue is full.
stop_task(t, id) ==
  IF t[id] \in {"Requested", "Running"}
    THEN {[rc |-> 1, tasks |-> [t EXCEPT ![id] = "StopRequested"]],
          [rc |-> -1, tasks |-> t]}
  ELSE IF t[id] = "StopRequested" THEN {[rc |-> 1, tasks |-> t]}
  ELSE {[rc |-> 0, tasks |-> t]}

\* manage_check_current_task: the child of an owned task may have ended; the
\* task is then done, or removed when its deletion was requested.
manage_check_current_task(t, o) ==
  {[tasks |-> [t EXCEPT ![id] = IF @ = "DeleteRequested" THEN "absent"
                                ELSE IF @ = "StopRequested" THEN "Stopped" ELSE "Done"],
    owned |-> o \ {id}] : id \in o}

\* set_report_parameter: 0, -2 parameter name error, -3 failed to write.
set_report_parameter == {0, -2, -3}

\* verify_agent and verify_report_format: 0 verified, 1 hidden, -1 error.
verify_resource == {0, 1, -1}

\* The task ids a task iterator yields: the given task, or every task.
task_iterator(t, id) ==
  IF id # NULL THEN {id} ELSE {i \in TaskIds : t[i] # "absent"}

(***************************************************************************)
(* omp_xml_handle_end_element, omp.c:7364-14275, for the modelled states.  *)
(***************************************************************************)
\* The tail of every command-root case: <member>_data_reset, then
\* set_client_state (CLIENT_AUTHENTIC).
respond(S, member, msgs, branch, called) ==
  Plan(S, msgs,
       [S EXCEPT !.client_state = "CLIENT_AUTHENTIC",
                 !.command_data = data_reset(@, member)],
       branch, called)

\* A case that calls g_log with the id of the resource after it has sent its
\* reply.
logged(plan, text, id) ==
  [plan EXCEPT !.log = <<[text |-> text, id |-> id, early |-> FALSE]>>]

\* case CLIENT_AUTHENTICATE, omp.c:7381-7412.
end_authenticate(S) ==
  LET freed == [S EXCEPT !.current_credentials = free_credentials]
      reply(rc) ==
        IF rc = 0
          THEN {IF l = 0
                  THEN Plan(S, <<XML_OK("authenticate")>>,
                            set_client_state(S, "CLIENT_AUTHENTIC"),
                            "authenticated", {"authenticate", "load_tasks"})
                  ELSE Plan(g_set_error(freed, "PARSE"),
                            <<XML_INTERNAL_ERROR("authenticate")>>,
                            set_client_state(g_set_error(freed, "PARSE"), "CLIENT_TOP"),
                            "load_failed", {"authenticate", "load_tasks"})
                : l \in load_tasks}
        ELSE IF rc = 1
          THEN {Plan(freed, <<XML_ERROR_AUTH_FAILED("authenticate")>>,
                     set_client_state(freed, "CLIENT_TOP"),
                     "rejected", {"authenticate"})}
          ELSE {Plan(freed, <<XML_INTERNAL_ERROR("authenticate")>>,
                     set_client_state(freed, "CLIENT_TOP"),
                     "auth_error", {"authenticate"})}
  IN  UNION {reply(rc) : rc \in authenticate(S.current_credentials)}

\* if (client_state): CLIENT_TOP is the first enumerator, the only zero one.
is_nonzero(state) == state # "CLIENT_TOP"

\* case CLIENT_GET_VERSION and CLIENT_GET_VERSION_AUTHENTIC, omp.c:8706-8717.
end_get_version(S) ==
  {Plan(S, <<Message("get_version_response", STATUS_OK, STATUS_OK_TEXT, "full")>>,
        set_client_state(S, IF is_nonzero(S.client_state)
                              THEN "CLIENT_AUTHENTIC" ELSE "CLIENT_TOP"),
        "version", {})}

\* case CLIENT_HELP, omp.c:9128-9135.
end_help(S) ==
  {Plan(S, <<ResponseOpen("help"), ResponseBody("help_text"), ResponseClose("help")>>,
        set_client_state(S, "CLIENT_AUTHENTIC"), "help", {})}

\* case CLIENT_DELETE_TASK, omp.c:9068-9126.
end_delete_task(S) ==
  LET id == S.command_data[<<"delete_task", "task_id">>]
      deleted(r) ==
        LET T == [S EXCEPT !.tasks = r.tasks]
            called == {"find_task", "request_delete_task"}
        IN  IF r.rc = 0
              THEN logged(respond(T, "delete_task", <<XML_OK("delete_task")>>,
                                  "deleted", called),
                          "Task %s has been deleted", id)
            ELSE IF r.rc = 1
              THEN logged(respond(T, "delete_task", <<XML_OK_REQUESTED("delete_task")>>,
                                  "requested", called),
                          "Deletion of task %s has been requested", id)
            ELSE IF r.rc = 2
              THEN logged(respond(T, "delete_task",
                                  <<XML_ERROR_SYNTAX("delete_task",
                                                     "Attempt to delete a hidden task")>>,
                                  "hidden", called),
                          "Task %s could not be deleted", id)
            ELSE [abort(T) EXCEPT !.calls = called]
      found(f) ==
        IF f.failed
          THEN {respond(S, "delete_task", <<XML_INTERNAL_ERROR("delete_task")>>,
                        "find_failed", {"find_task"})}
        ELSE IF ~f.found
          THEN {respond(S, "delete_task", <<FindErrorMessage("delete_task", "task", id)>>,
                        "not_found", {"find_task"})}
        ELSE {deleted(r) : r \in request_delete_task(S.tasks, id)}
  IN  IF id # NULL
        THEN UNION {found(f) : f \in find_task(S.tasks, id)}
        ELSE {respond(S, "delete_task",
                      <<XML_ERROR_SYNTAX("delete_task",
                                         "DELETE_TASK requires a task_id attribute")>>,
                      "missing_id", {})}

\* The backend operation each of the three commands calls.
run(command, t, o, id) ==
  CASE command = "start_task" -> start_task(t, o, id)
    [] command = "resume_or_start_task" -> resume_or_start_task(t, o, id)
    [] command = "resume_stopped_task" -> resume_stopped_task(t, o, id)

\* case CLIENT_START_TASK, omp.c:12245-12365, and with the operation and the
\* reply to a missing id exchanged, case CLIENT_RESUME_OR_START_TASK, omp.c:11934-12063,
\* and case CLIENT_RESUME_STOPPED_TASK, omp.c:12115-12243.
end_run_task(S, command, missing) ==
  LET id == S.command_data[<<command, "task_id">>]
      ran(r) ==
        LET T == [S EXCEPT !.tasks = r.tasks, !.owned = r.owned]
            called == {"find_task", command}
            failed ==
              IF command = "resume_stopped_task" THEN "Task %s has failed to resume"
              ELSE "Task %s has failed to start"
            error(text, branch) ==
              logged(respond(T, command, <<XML_ERROR_SYNTAX(command, text)>>, branch,
                             called),
                     failed, id)
            child == respond(T, command, << >>, "child", called)
        IN  IF r.rc = 0
              THEN logged([respond(T, command, <<StartedMessage(command, r.report_id)>>,
                                   "forked", called)
                             EXCEPT !.post.forked = 1],
                          IF command = "resume_stopped_task"
                            THEN "Task %s has been resumed"
                            ELSE "Task %s has been requested to start",
                          id)
            ELSE IF r.rc = 1 THEN error("Task is active already", "active")
            ELSE IF r.rc = 22 THEN error("Task must be in Stopped state", "not_stopped")
            ELSE IF r.rc \in {2, -10}
              THEN [child EXCEPT !.post = g_set_error([@ EXCEPT !.current_error = r.rc],
                                                      "INVALID_CONTENT")]
            ELSE IF r.rc = -6
              THEN error("There is already a task running in this process", "busy")
            ELSE logged(respond(T, command, <<XML_INTERNAL_ERROR(command)>>,
                                "run_failed", called),
                        failed, id)
      found(f) ==
        IF f.failed
          THEN {respond(S, command, <<XML_INTERNAL_ERROR(command)>>,
                        "find_failed", {"find_task"})}
        ELSE IF ~f.found
          THEN {respond(S, command, <<FindErrorMessage(command, "task", id)>>,
                        "not_found", {"find_task"})}
        ELSE IF S.forked = 2 THEN {[abort(S) EXCEPT !.calls = {"find_task"}]}
        ELSE {ran(r) : r \in run(command, S.tasks, S.owned, id)}
  IN  IF id # NULL
        THEN UNION {found(f) : f \in find_task(S.tasks, id)}
        ELSE {respond(S, command, <<missing>>, "missing_id", {})}

end_start_task(S) ==
  end_run_task(S, "start_task",
               XML_ERROR_SYNTAX("start_task", "START_TASK task_id attribute must be set"))

end_resume_or_start_task(S) ==
  end_run_task(S, "resume_or_start_task",
               XML_INTERNAL_ERROR("resume_or_start_task"))

end_resume_stopped_task(S) ==
  end_run_task(S, "resume_stopped_task",
               XML_INTERNAL_ERROR("resume_stopped_task"))

\* case CLIENT_STOP_TASK, omp.c:12367-12413.
end_stop_task(S) ==
  LET id == S.command_data[<<"stop_task", "task_id">>]
      stopped(r) ==
        LET T == [S EXCEPT !.tasks = r.tasks]
            called == {"find_task", "stop_task"}
        IN  IF r.rc = 0
              THEN logged(respond(T, "stop_task", <<XML_OK("stop_task")>>, "stopped",
                                  called),
                          "Task %s has been stopped", id)
            ELSE IF r.rc = 1
              THEN logged(respond(T, "stop_task", <<XML_OK_REQUESTED("stop_task")>>,
                                  "requested", called),
                          "Task %s has been requested to stop", id)
            ELSE [abort(T) EXCEPT !.calls = called]
      found(f) ==
        IF f.failed
          THEN {respond(S, "stop_task", <<XML_INTERNAL_ERROR("stop_task")>>,
                        "find_failed", {"find_task"})}
        ELSE IF ~f.found
          THEN {respond(S, "stop_task", <<FindErrorMessage("stop_task", "task", id)>>,
                        "not_found", {"find_task"})}
        ELSE {stopped(r) : r \in stop_task(S.tasks, id)}
  IN  IF id # NULL
        THEN UNION {found(f) : f \in find_task(S.tasks, id)}
        ELSE {respond(S, "stop_task",
                      <<XML_ERROR_SYNTAX("stop_task",
                                         "STOP_TASK requires a task_id attribute")>>,
                      "missing_id", {})}

\* The lines the task iterator of GET_TASKS sends for one task,
\* omp.c:13413-14165; send_reports ignores the result of its sends.
task_lines(details) ==
  IF details # "0"
    THEN <<ResponseBody("<task>"), ResponseBody("<report/>"), ResponseBody("</task>")>>
    ELSE <<ResponseBody("<task/>")>>

\* case CLIENT_GET_TASKS, omp.c:13357-14173.
end_get_tasks(S) ==
  LET id == S.command_data[<<"get_tasks", "task_id">>]
      details == S.command_data[<<"get_tasks", "details">>]
      listing(f) ==
        LET rows == task_iterator(S.tasks, IF f.found THEN id ELSE NULL)
            lines == IF rows = {} THEN << >> ELSE task_lines(details)
            plan == respond(S, "get_tasks",
                            <<ResponseOpen("get_tasks"), ResponseBody("<task_count>"),
                              ResponseBody("<sort>")>> \o lines
                              \o <<ResponseClose("get_tasks")>>,
                            "listing", {"init_task_iterator"}
                              \cup (IF id # NULL THEN {"find_task"} ELSE {}))
        IN  {[plan EXCEPT !.unchecked = IF Len(lines) = 3 THEN {5} ELSE {}]}
              \* report_counts or report_timestamp failed: abort () after the head.
              \cup (IF rows # {} /\ details # "0"
                      THEN {[abort(S) EXCEPT !.pre = S, !.msgs = SubSeq(plan.msgs, 1, 3),
                                             !.calls = plan.calls]}
                      ELSE {})
      found(f) ==
        IF f.failed
          THEN {respond(S, "get_tasks", <<XML_INTERNAL_ERROR("get_tasks")>>,
                        "find_failed", {"find_task"})}
        ELSE IF ~f.found
          THEN {respond(S, "get_tasks", <<FindErrorMessage("get_tasks", "task", id)>>,
                        "not_found", {"find_task"})}
        ELSE listing(f)
  IN  IF id # NULL
        THEN UNION {found(f) : f \in find_task(S.tasks, id)}
        ELSE listing([failed |-> FALSE, found |-> FALSE])

\* case CLIENT_MODIFY_REPORT, omp.c:9409-9462: the XML_OK of line 9458 follows
\* the reply of every branch.
end_modify_report(S) ==
  LET id == S.command_data[<<"modify_report", "report_id">>]
      comment == S.command_data[<<"modify_report", "comment">>]
      reply(msg, branch, called) ==
        respond(S, "modify_report", <<msg, XML_OK("modify_report")>>, branch, called)
      set(rc) ==
        IF rc = 0
          THEN reply(XML_OK("modify_report"), "modified",
                     {"find_report", "set_report_parameter"})
        ELSE IF rc = -2
          THEN reply(XML_ERROR_SYNTAX("modify_report", "Bogus MODIFY_REPORT parameter"),
                     "bogus_parameter", {"find_report", "set_report_parameter"})
        ELSE reply(XML_INTERNAL_ERROR("modify_report"), "set_failed",
                   {"find_report", "set_report_parameter"})
      found(f) ==
        IF f.failed
          THEN {reply(XML_INTERNAL_ERROR("modify_report"), "find_failed", {"find_report"})}
        ELSE IF ~f.found
          THEN {reply(FindErrorMessage("modify_report", "report", id), "not_found",
                      {"find_report"})}
        ELSE {set(rc) : rc \in set_report_parameter}
  IN  IF id = NULL
        THEN {reply(XML_ERROR_SYNTAX("modify_report",
                                     "MODIFY_REPORT requires a report_id attribute"),
                    "missing_id", {})}
      ELSE IF comment = NULL
        THEN {reply(XML_ERROR_SYNTAX("modify_report",
                                     "MODIFY_REPORT requires a COMMENT element"),
                    "missing_comment", {})}
      ELSE UNION {found(f) : f \in find_static(id)}

\* case CLIENT_VERIFY_AGENT and case CLIENT_VERIFY_REPORT_FORMAT,
\* omp.c:14175-14269: `type` is the resource type the find error names.
end_verify(S, command, field, type, finder, missing_text) ==
  LET id == S.command_data[<<command, field>>]
      verified(rc) ==
        IF rc = 0
          THEN respond(S, command, <<XML_OK(command)>>, "verified",
                       {finder, command})
        ELSE IF rc = 1
          THEN respond(S, command,
                       <<XML_ERROR_SYNTAX(command,
                                          "Attempt to verify a hidden report format")>>,
                       "hidden", {finder, command})
        ELSE respond(S, command, <<XML_INTERNAL_ERROR(command)>>, "verify_failed",
                     {finder, command})
      found(f) ==
        IF f.failed
          THEN {respond(S, command, <<XML_INTERNAL_ERROR(command)>>, "find_failed",
                        {finder})}
        ELSE IF ~f.found
          THEN {respond(S, command, <<FindErrorMessage(command, type, id)>>,
                        "not_found", {finder})}
        ELSE {verified(rc) : rc \in verify_resource}
  IN  IF id # NULL
        THEN UNION {found(f) : f \in find_static(id)}
        ELSE {respond(S, command, <<XML_ERROR_SYNTAX(command, missing_text)>>,
                      "missing_id", {})}

end_verify_agent(S) ==
  end_verify(S, "verify_agent", "agent_id", "report format", "find_agent",
             "VERIFY_AGENT requires a agent_id attribute")

\* case CLIENT_CREATE_TASK, omp.c:11248-11550, for a task without an rcfile,
\* an escalator, a schedule and a slave.  Every failure calls
\* request_delete_task on the task before it replies; the task is not running,
\* so the call removes it.
end_create_task(S) ==
  LET task == S.command_data[<<"create_task", "task">>]
      config_id == S.command_data[<<"create_task", "config_id">>]
      target_id == S.command_data[<<"create_task", "target_id">>]
      deleted == [S EXCEPT !.tasks[task] = "absent"]
      fail(msg, branch, called) ==
        respond(deleted, "create_task", <<msg>>, branch,
                called \cup {"request_delete_task"})
      internal(branch, called) ==
        fail(XML_INTERNAL_ERROR("create_task"), branch, called)
      target(f, called) ==
        IF f.failed THEN {internal("find_failed", called)}
        ELSE IF ~f.found
          THEN {fail(FindErrorMessage("create_task", "target", target_id),
                     "not_found", called)}
        ELSE {fail(XML_ERROR_SYNTAX("create_task", "Failed to generate task rcfile"),
                   "rcfile_failed", called \cup {"make_task_rcfile"}),
              [respond(S, "create_task", <<XML_OK_CREATED_ID("create_task", task)>>,
                       "created", called \cup {"make_task_rcfile"})
                 EXCEPT !.log = <<[text |-> "Task %s has been created", id |-> task,
                                   early |-> FALSE]>>]}
      config(f) ==
        IF f.failed THEN {internal("find_failed", {"task_uuid", "find_config"})}
        ELSE IF ~f.found
          THEN {fail(FindErrorMessage("create_task", "config", config_id),
                     "not_found", {"task_uuid", "find_config"})}
        ELSE UNION {target(t, {"task_uuid", "find_config", "find_target"}) :
                      t \in find_static(target_id)}
  IN  {internal("uuid_failed", {"task_uuid"})} \cup
      (IF config_id = NULL \/ target_id = NULL
         THEN {fail(XML_ERROR_SYNTAX("create_task",
                                     "CREATE_TASK requires either an rcfile or both a config and a target"),
                    "combination", {"task_uuid"})}
       ELSE IF S.parameters[task].NAME = NULL
         THEN {fail(XML_ERROR_SYNTAX("create_task",
                                     "CREATE_TASK requires a name attribute"),
                    "missing_name", {"task_uuid"})}
       ELSE UNION {config(f) : f \in find_config(config_id)})

\* case CLIENT_CREATE_CONFIG, omp.c:9858-10058.  CREATE_CONFIG stages a name
\* when it opens, so the assertion of line 9862 holds; an rcfile that
\* g_base64_decode rejects is passed on as the empty string.
end_create_config(S) ==
  LET name == S.command_data[<<"create_config", "name">>]
      copy == S.command_data[<<"create_config", "copy">>]
      rcfile == S.command_data[<<"create_config", "rcfile">>]
      entry(text, id, early) == <<[text |-> text, id |-> id, early |-> early]>>
      not_created(early) == entry("Scan config could not be created", NULL, early)
      reply(msg, branch, called, entries) ==
        [respond(S, "create_config", <<msg>>, branch, called) EXCEPT !.log = entries]
      syntax(text, branch, called, early) ==
        reply(XML_ERROR_SYNTAX("create_config", text), branch, called,
              not_created(early))
      made(rc, form, called) ==
        IF rc = 0
          THEN reply([XML_OK_CREATED_ID("create_config", "config1")
                        EXCEPT !.form = form],
                     "created", called,
                     entry("Scan config %s has been created", "config1", FALSE))
        ELSE IF rc = 1
          THEN syntax("Config exists already", "exists", called, FALSE)
        ELSE IF rc = -1
          THEN reply(XML_INTERNAL_ERROR("create_config"), "create_failed", called,
                     not_created(FALSE))
        ELSE IF rc = -2
          THEN syntax("CREATE_CONFIG import name must be at least one character long",
                      "import_name", called, FALSE)
        ELSE IF rc = -3
          THEN syntax("Error in NVT_SELECTORS element.", "import_selectors", called,
                      FALSE)
        ELSE syntax("Error in PREFERENCES element.", "import_preferences", called,
                    FALSE)
      found(f) ==
        IF f.failed
          THEN {reply(XML_INTERNAL_ERROR("create_config"), "find_failed",
                      {"find_config"}, << >>)}
        ELSE IF ~f.found
          THEN {reply(FindErrorMessage("create_config", "config", copy), "not_found",
                      {"find_config"}, << >>)}
        ELSE {made(rc, "empty", {"find_config", "copy_config"}) : rc \in copy_config}
  IN  \* "the import element, GET_CONFIGS_RESPONSE, overrides any other elements"
      IF S.command_data[<<"create_config", "import">>] = "1"
        THEN {made(rc, "full", {"create_config"}) : rc \in create_config}
      ELSE IF name = ""
        THEN {syntax("CREATE_CONFIG name and rcfile must be at least one character long",
                     "empty_name", {}, TRUE)}
      ELSE IF (rcfile # NULL /\ copy # NULL) \/ (rcfile = NULL /\ copy = NULL)
        THEN {syntax("CREATE_CONFIG requires either a COPY or an RCFILE element",
                     "copy_or_rcfile", {}, TRUE)}
      ELSE IF rcfile # NULL
        THEN {made(rc, "empty", {"create_config_rc"}) : rc \in create_config_rc}
      ELSE UNION {found(f) : f \in find_config(copy)}

\* case CLIENT_MODIFY_TASK, omp.c:9518-9742, without the branches of the
\* children outside the alphabet (action, rcfile and schedule_id stay NULL).
\* A step is the state of the loop over the staged parameters: the
\* parameters of the tasks, the operations called, and the reply of the
\* step that failed.  One of name and escalator_id is staged when the steps
\* run, so `first` is 0 at the assertion of line 9726.
end_modify_task(S) ==
  LET id == S.command_data[<<"modify_task", "task_id">>]
      name == S.command_data[<<"modify_task", "name">>]
      comment == S.command_data[<<"modify_task", "comment">>]
      escalator_id == S.command_data[<<"modify_task", "escalator_id">>]
      not_modified ==
        <<[text |-> "Task %s could not be modified", id |-> id, early |-> FALSE]>>
      set(step, value, parameter) ==
        IF step.fail # << >> \/ value = NULL THEN {step}
        ELSE {[parameters |-> r.parameters,
               calls |-> step.calls \cup {"set_task_parameter " \o parameter},
               fail |-> IF r.rc = 0 THEN << >> ELSE <<XML_INTERNAL_ERROR("modify_task")>>,
               log |-> IF r.rc = 0 THEN << >> ELSE not_modified]
                : r \in set_task_parameter(step.parameters, id, parameter, value)}
      escalate(step) ==
        IF step.fail # << >> \/ escalator_id = NULL THEN {step}
        ELSE IF escalator_id = "0"
          THEN {[step EXCEPT !.parameters[id].escalator = "0",
                             !.calls = @ \cup {"set_task_escalator"}]}
        ELSE {IF f.failed
                THEN [step EXCEPT !.calls = @ \cup {"find_escalator"},
                                  !.fail = <<XML_INTERNAL_ERROR("modify_task")>>]
              ELSE IF ~f.found
                THEN [step EXCEPT !.calls = @ \cup {"find_escalator"},
                                  !.fail = <<FindErrorMessage("modify_task", "escalator",
                                                              escalator_id)>>]
              ELSE [step EXCEPT !.parameters[id].escalator = escalator_id,
                                !.calls = @ \cup {"find_escalator",
                                                  "set_task_escalator"}]
                : f \in find_static(escalator_id)}
      steps ==
        UNION {escalate(c) :
                 c \in UNION {set(n, comment, "COMMENT") :
                                n \in set([parameters |-> S.parameters,
                                           calls |-> {"find_task"}, fail |-> << >>,
                                           log |-> << >>],
                                          name, "NAME")}}
      done(step) ==
        [respond([S EXCEPT !.parameters = step.parameters], "modify_task",
                 IF step.fail # << >> THEN step.fail ELSE <<XML_OK("modify_task")>>,
                 IF step.fail # << >> THEN "failed" ELSE "modified", step.calls)
           EXCEPT !.log = IF step.fail # << >> THEN step.log
                          ELSE <<[text |-> "Task %s has been modified", id |-> id,
                                  early |-> TRUE]>>]
      found(f) ==
        IF f.failed
          THEN {respond(S, "modify_task", <<XML_INTERNAL_ERROR("modify_task")>>,
                        "find_failed", {"find_task"})}
        ELSE IF ~f.found
          THEN {respond(S, "modify_task", <<FindErrorMessage("modify_task", "task", id)>>,
                        "not_found", {"find_task"})}
        ELSE IF name = NULL /\ escalator_id = NULL
          THEN {respond(S, "modify_task",
                        <<XML_ERROR_SYNTAX("modify_task", "Too few parameters")>>,
                        "too_few", {"find_task"})}
        ELSE {done(step) : step \in steps}
  IN  IF id # NULL
        THEN UNION {found(f) : f \in find_task(S.tasks, id)}
        ELSE {respond(S, "modify_task",
                      <<XML_ERROR_SYNTAX("modify_task",
                                         "MODIFY_TASK requires a task_id attribute")>>,
                      "missing_id", {})}

end_verify_report_format(S) ==
  end_verify(S, "verify_report_format", "report_format_id", "report format",
             "find_report_format",
             "VERIFY_REPORT_FORMAT requires a report_format_id attribute")

\* The cases that only pop to the parent state.
ParentState ==
  [CLIENT_AUTHENTICATE_CREDENTIALS |-> "CLIENT_AUTHENTICATE",
   CLIENT_AUTHENTICATE_CREDENTIALS_USERNAME |-> "CLIENT_AUTHENTICATE_CREDENTIALS",
   CLIENT_AUTHENTICATE_CREDENTIALS_PASSWORD |-> "CLIENT_AUTHENTICATE_CREDENTIALS",
   CLIENT_CREATE_CONFIG_COMMENT |-> "CLIENT_CREATE_CONFIG",
   CLIENT_CREATE_CONFIG_COPY |-> "CLIENT_CREATE_CONFIG",
   CLIENT_CREATE_CONFIG_NAME |-> "CLIENT_CREATE_CONFIG",
   CLIENT_CREATE_CONFIG_RCFILE |-> "CLIENT_CREATE_CONFIG",
   CLIENT_CREATE_TASK_CONFIG |-> "CLIENT_CREATE_TASK",
   CLIENT_CREATE_TASK_NAME |-> "CLIENT_CREATE_TASK",
   CLIENT_CREATE_TASK_TARGET |-> "CLIENT_CREATE_TASK",
   CLIENT_MODIFY_REPORT_COMMENT |-> "CLIENT_MODIFY_REPORT",
   CLIENT_MODIFY_TASK_COMMENT |-> "CLIENT_MODIFY_TASK",
   CLIENT_MODIFY_TASK_ESCALATOR |-> "CLIENT_MODIFY_TASK",
   CLIENT_MODIFY_TASK_NAME |-> "CLIENT_MODIFY_TASK"]

\* The states in which a command root is open and its end handler replies.
CommandRootStates ==
  {"CLIENT_AUTHENTICATE", "CLIENT_GET_VERSION", "CLIENT_GET_VERSION_AUTHENTIC",
   "CLIENT_HELP", "CLIENT_CREATE_CONFIG", "CLIENT_CREATE_TASK", "CLIENT_DELETE_TASK",
   "CLIENT_GET_TASKS",
   "CLIENT_MODIFY_REPORT", "CLIENT_MODIFY_TASK",
   "CLIENT_RESUME_OR_START_TASK", "CLIENT_RESUME_STOPPED_TASK", "CLIENT_START_TASK",
   "CLIENT_STOP_TASK", "CLIENT_VERIFY_AGENT", "CLIENT_VERIFY_REPORT_FORMAT"}

omp_xml_handle_end_element(S) ==
  LET state == S.client_state
  IN  IF state = "CLIENT_TOP"
        THEN assert_0(S, Plan(S, << >>, S, "top", {}))
      ELSE IF state = "CLIENT_AUTHENTICATE" THEN end_authenticate(S)
      ELSE IF state \in DOMAIN ParentState
        THEN {Plan(S, << >>, set_client_state(S, ParentState[state]), "pop", {})}
      ELSE IF state \in {"CLIENT_AUTHENTIC", "CLIENT_COMMANDS", "CLIENT_AUTHENTIC_COMMANDS"}
        THEN {Plan(S, <<ResponseClose("commands")>>, S, "commands", {})}
      ELSE IF state \in {"CLIENT_GET_VERSION", "CLIENT_GET_VERSION_AUTHENTIC"}
        THEN end_get_version(S)
      ELSE IF state = "CLIENT_HELP" THEN end_help(S)
      \* case CLIENT_C_C_GCR, omp.c:10075-10079: the import is complete.
      ELSE IF state = "CLIENT_C_C_GCR"
        THEN {Plan(S, << >>,
                   [S EXCEPT !.client_state = "CLIENT_CREATE_CONFIG",
                             !.command_data[<<"create_config", "import">>] = "1"],
                   "pop", {})}
      ELSE IF state = "CLIENT_CREATE_CONFIG" THEN end_create_config(S)
      ELSE IF state = "CLIENT_CREATE_TASK" THEN end_create_task(S)
      ELSE IF state = "CLIENT_MODIFY_TASK" THEN end_modify_task(S)
      ELSE IF state = "CLIENT_DELETE_TASK" THEN end_delete_task(S)
      ELSE IF state = "CLIENT_GET_TASKS" THEN end_get_tasks(S)
      ELSE IF state = "CLIENT_MODIFY_REPORT" THEN end_modify_report(S)
      ELSE IF state = "CLIENT_RESUME_OR_START_TASK" THEN end_resume_or_start_task(S)
      ELSE IF state = "CLIENT_RESUME_STOPPED_TASK" THEN end_resume_stopped_task(S)
      ELSE IF state = "CLIENT_START_TASK" THEN end_start_task(S)
      ELSE IF state = "CLIENT_STOP_TASK" THEN end_stop_task(S)
      ELSE IF state = "CLIENT_VERIFY_AGENT" THEN end_verify_agent(S)
      ELSE IF state = "CLIENT_VERIFY_REPORT_FORMAT" THEN end_verify_report_format(S)
      ELSE assert_0(S, Plan(S, << >>, S, "default", {}))

(***************************************************************************)
(* The client and the parser.                                              *)
(***************************************************************************)
\* The four states in which no command is open.
TopStates ==
  {"CLIENT_TOP", "CLIENT_COMMANDS", "CLIENT_AUTHENTIC", "CLIENT_AUTHENTIC_COMMANDS"}

\* The element names the client opens in a state: the ones the state accepts,
\* GET_VERSION inside a COMMANDS wrapper, and OtherNames.
ElementNames(state) ==
  OtherNames \cup
  (IF state \in {"CLIENT_TOP", "CLIENT_COMMANDS"}
     THEN {"AUTHENTICATE", "COMMANDS", "GET_VERSION"}
   ELSE IF state \in {"CLIENT_AUTHENTIC", "CLIENT_AUTHENTIC_COMMANDS"}
     THEN {"AUTHENTICATE", "COMMANDS", "GET_VERSION", "HELP", "DELETE_TASK",
           "GET_TASKS", "MODIFY_REPORT", "VERIFY_AGENT", "VERIFY_REPORT_FORMAT"}
   ELSE IF state = "CLIENT_AUTHENTICATE" THEN {"CREDENTIALS"}
   ELSE IF state = "CLIENT_AUTHENTICATE_CREDENTIALS" THEN {"USERNAME", "PASSWORD"}
   ELSE IF state = "CLIENT_MODIFY_REPORT" THEN {"COMMENT"}
   ELSE {})

\* An element without attributes.
NoAttributes == [a \in {} |-> ""]

\* The attribute lists the client may put on an element: no attribute, the id
\* alone, or every attribute the handler reads.
Attributes(element_name) ==
  CASE element_name = "DELETE_TASK" ->
         {NoAttributes} \cup {[task_id |-> id] : id \in Ids}
    [] element_name = "GET_TASKS" ->
         {NoAttributes} \cup {[task_id |-> id] : id \in Ids}
         \cup {[task_id |-> id, rcfile |-> "1", details |-> d,
                apply_overrides |-> "1", sort_field |-> "name",
                sort_order |-> "descending"] : id \in Ids, d \in {"0", "1"}}
    [] element_name \in {"RESUME_OR_START_TASK", "RESUME_STOPPED_TASK", "START_TASK",
                         "STOP_TASK"} ->
         {NoAttributes} \cup {[task_id |-> id] : id \in TaskRefs}
    [] element_name = "MODIFY_TASK" ->
         {NoAttributes} \cup {[task_id |-> id] : id \in Ids}
    [] element_name = "ESCALATOR" ->
         {NoAttributes} \cup {[id |-> id] : id \in Ids}
    [] element_name = "CONFIG" ->
         {NoAttributes} \cup {[id |-> id] : id \in {"u", "not-a-real-id"}}
    [] element_name = "TARGET" ->
         {NoAttributes} \cup {[id |-> id] : id \in Ids}
    [] element_name = "MODIFY_REPORT" ->
         {NoAttributes} \cup {[report_id |-> id] : id \in Ids}
    [] element_name = "VERIFY_AGENT" ->
         {NoAttributes} \cup {[agent_id |-> id] : id \in Ids}
    [] element_name = "VERIFY_REPORT_FORMAT" ->
         {NoAttributes} \cup {[report_format_id |-> id] : id \in Ids}
    [] OTHER -> {NoAttributes}

\* The process runs and no handler has set an error.
Healthy == proc = "running" /\ xml_error = "none"

\* The parser delivers callbacks inside g_markup_parse_context_parse, while no
\* handler has set an error.
Parsing == Healthy /\ input.active /\ xml_context = "ok"

\* The bytes queued and not yet written.
Queued == SubSeq(to_client, to_client_start + 1, to_client_end)

\* The bytes of a sequence of replies.
RECURSIVE Concat(_)
Concat(msgs) ==
  IF msgs = << >> THEN << >> ELSE bytes(Head(msgs)) \o Concat(Tail(msgs))

\* A log entry the handler writes before it sends the reply.
before_send(entry) == entry.early

\* One handler call: its sends, then the globals it leaves.  An entry the
\* handler logs after SEND_TO_CLIENT_OR_FAIL is not written when the send
\* fails.
Run(p) ==
  \E r \in SendAll(p.msgs, p.unchecked, 1, to_client, to_client_start, to_client_end) :
    LET S == IF r.ret = "TRUE" THEN error_send_to_client(p.pre)
             ELSE IF r.ret = "spin" THEN [p.pre EXCEPT !.proc = "spinning"]
             ELSE p.post
    IN  /\ client_state' = S.client_state
        /\ command_data' = S.command_data
        /\ current_credentials' = S.current_credentials
        /\ tasks' = S.tasks
        /\ owned' = S.owned
        /\ parameters' = S.parameters
        /\ xml_error' = S.xml_error
        /\ proc' = S.proc
        /\ to_client' = r.to_client
        /\ to_client_start' = r.start
        /\ to_client_end' = r.end
        /\ sent' = r.queued
        /\ calls' = p.calls
        /\ log' = IF r.ret = "FALSE" THEN p.log ELSE SelectSeq(p.log, before_send)
        /\ forked' = S.forked
        /\ current_error' = S.current_error
        /\ wire' = r.wire
        /\ stream' = Queued \o Concat(r.queued)
        /\ write_error' = [failed |-> r.fatal, checked |-> r.ret = "TRUE",
                           queued_after |-> r.after > 0]
        /\ UNCHANGED <<xml_context, input>>

\* The tasks the backend holds when the session opens: one task in any
\* status another process may have left it in, and a new one.
InitialTasks ==
  {[id1 |-> status, id2 |-> "New"] : status \in {"absent", "New", "Running", "Reserved"}}

\* The parameters of the tasks when the session opens.
InitialParameters ==
  [id \in TaskIds |-> [NAME |-> "", COMMENT |-> "", escalator |-> "0"]]

\* No failure of the write callback so far.
NoWriteError == [failed |-> FALSE, checked |-> FALSE, queued_after |-> FALSE]

Init ==
  /\ client_state = "CLIENT_TOP"
  /\ command_data = command_data_init
  /\ current_credentials = free_credentials
  /\ to_client = << >>
  /\ to_client_start = 0
  /\ to_client_end = 0
  /\ tasks \in InitialTasks
  /\ owned = {}
  /\ parameters = InitialParameters
  /\ log = << >>
  /\ xml_error = "none"
  /\ proc = "running"
  /\ depth = 0
  /\ logged_in = FALSE
  /\ origin = "CLIENT_TOP"
  /\ last = [op |-> "init", state |-> "CLIENT_TOP", name |-> "", branch |-> ""]
  /\ sent = << >>
  /\ calls = {}
  /\ wire = << >>
  /\ stream = << >>
  /\ forked = 0
  /\ current_error = 0
  /\ xml_context = "ok"
  /\ input = [active |-> FALSE, rc |-> 0, session |-> 1]
  /\ write_error = NoWriteError

\* The parser calls omp_xml_handle_start_element for an element among `names`.
StartElementOf(names) ==
  /\ Parsing
  /\ depth < MaxDepth
  /\ \E element_name \in names :
       \E attrs \in Attributes(element_name) :
         \E p \in omp_xml_handle_start_element(Prog, element_name, attrs) :
           /\ Run(p)
           /\ depth' = depth + 1
           /\ origin' = IF client_state \in TopStates THEN client_state ELSE origin
           /\ logged_in' = (logged_in /\ ~(element_name = "AUTHENTICATE"
                                           /\ p.branch = "accept"))
           /\ last' = [op |-> "start", state |-> client_state,
                       name |-> element_name, branch |-> p.branch]

StartElement == StartElementOf(ElementNames(client_state))

\* The parser calls omp_xml_handle_text with a text among `chunks`.
TextOf(chunks) ==
  /\ Parsing
  /\ depth > 0
  /\ \E text \in chunks :
       /\ Len(append_string(TextTarget(Prog), text)) <= MaxTextLen
       /\ LET S == omp_xml_handle_text(Prog, text)
          IN  /\ client_state' = S.client_state
              /\ command_data' = S.command_data
              /\ current_credentials' = S.current_credentials
              /\ parameters' = S.parameters
  /\ UNCHANGED <<to_client, to_client_start, to_client_end, tasks, owned,
                 xml_error,
                 proc, depth, logged_in, origin, last, sent, calls, log, wire, stream, forked,
                 current_error, xml_context, input, write_error>>

Text == TextOf(TextChunks)

\* The parser calls omp_xml_handle_end_element.
EndElement ==
  /\ Parsing
  /\ depth > 0
  /\ \E p \in omp_xml_handle_end_element(Prog) :
         /\ Run(p)
         /\ depth' = depth - 1
         /\ origin' = origin
         /\ logged_in' = IF client_state = "CLIENT_AUTHENTICATE"
                           THEN p.branch = "authenticated" ELSE logged_in
         /\ last' = [op |-> "end", state |-> client_state, name |-> "",
                     branch |-> p.branch]

\* process_omp_client_input that leaves forked alone when it returns the
\* status of a child.
process_omp_client_input_retrying(error, context, current, f) ==
  IF context = "error" THEN [rc |-> -1, forked |-> f]
  ELSE IF error = "none" THEN [rc |-> IF f # 0 THEN 3 ELSE 0, forked |-> f]
  ELSE IF error = "INVALID_CONTENT" /\ current # 0 THEN [rc |-> current, forked |-> f]
  ELSE IF error \in {"UNKNOWN_ELEMENT", "INVALID_CONTENT", "UNKNOWN_ATTRIBUTE"}
    THEN [rc |-> -4, forked |-> f]
  ELSE [rc |-> -1, forked |-> f]

\* process_omp_client_input that reports the dummy error of a child as the
\* syntax error it is raised as.
process_omp_client_input_syntax(error, context, current, f) ==
  IF context = "error" THEN [rc |-> -1, forked |-> f]
  ELSE IF error = "none" THEN [rc |-> IF f # 0 THEN 3 ELSE 0, forked |-> f]
  ELSE IF error \in {"UNKNOWN_ELEMENT", "INVALID_CONTENT", "UNKNOWN_ATTRIBUTE"}
    THEN [rc |-> -4, forked |-> IF current # 0 THEN 2 ELSE f]
  ELSE [rc |-> -1, forked |-> f]

\* The return value of process_omp_client_input, omp.c:14869-14911, and the
\* value it leaves in forked.  A parse context that has failed before fails
\* again without an error, and without calling a handler.
process_omp_client_input(error, context, current, f) ==
  IF context = "error" THEN [rc |-> -1, forked |-> f]
  ELSE IF error = "none" THEN [rc |-> IF f # 0 THEN 3 ELSE 0, forked |-> f]
  ELSE IF error = "INVALID_CONTENT" /\ current # 0 THEN [rc |-> current, forked |-> 2]
  ELSE IF error \in {"UNKNOWN_ELEMENT", "INVALID_CONTENT", "UNKNOWN_ATTRIBUTE"}
    THEN [rc |-> -4, forked |-> f]
  ELSE [rc |-> -1, forked |-> f]

\* The host calls process_omp_client_input with the next commands of the
\* client; it may do so after a call that failed.
Feed ==
  /\ proc = "running"
  /\ ~input.active
  /\ input' = [input EXCEPT !.active = TRUE]
  /\ current_error' = 0
  /\ UNCHANGED <<client_state, command_data, current_credentials, to_client,
                 to_client_start, to_client_end, tasks, owned, parameters, xml_error,
                 proc, depth, logged_in, origin, last, sent, calls, log, wire, stream,
                 forked, xml_context, write_error>>

\* process_omp_client_input returns: the parse failed, or the input, which
\* ends in one of `states`, is used up.  The GError is freed.
ReturnIn(states) ==
  /\ proc = "running"
  /\ input.active
  /\ xml_error # "none" \/ xml_context = "error" \/ client_state \in states
  /\ LET r == process_omp_client_input(xml_error, xml_context, current_error, forked)
     IN  /\ input' = [input EXCEPT !.active = FALSE, !.rc = r.rc]
         /\ forked' = r.forked
         /\ xml_context' = IF xml_error # "none" THEN "error" ELSE xml_context
         /\ last' = [op |-> "return", state |-> client_state, name |-> "",
                     branch |-> IF xml_context = "error" THEN "again"
                                ELSE IF xml_error # "none" THEN "error" ELSE "ok"]
  /\ xml_error' = "none"
  /\ sent' = << >>
  /\ calls' = {}
  /\ log' = << >>
  /\ wire' = << >>
  /\ stream' = << >>
  /\ write_error' = IF xml_error # "none" \/ xml_context = "error"
                      THEN write_error ELSE NoWriteError
  /\ UNCHANGED <<client_state, command_data, current_credentials, to_client,
                 to_client_start, to_client_end, tasks, owned, parameters, proc,
                 depth, logged_in, origin, current_error>>

\* The input of a call ends between two commands.
Return == ReturnIn(TopStates)

\* The host calls process_omp_change between two calls of
\* process_omp_client_input, omp.c:14935-14939.
ProcessChange ==
  /\ proc = "running"
  /\ ~input.active
  /\ \E r \in manage_check_current_task(tasks, owned) :
       /\ tasks' = r.tasks
       /\ owned' = r.owned
  /\ last' = [op |-> "change", state |-> client_state, name |-> "", branch |-> ""]
  /\ UNCHANGED <<client_state, command_data, current_credentials, to_client,
                 to_client_start, to_client_end, parameters, xml_error, proc, depth,
                 logged_in, origin, sent, calls, log, wire, stream, forked,
                 current_error, xml_context, input, write_error>>

Next == StartElement \/ Text \/ EndElement \/ Feed \/ Return

Spec == Init /\ [][Next]_vars

(***************************************************************************)
(* Task control: a session that has authenticated, whose client goes on    *)
(* with the commands that start, resume and delete tasks, while the host   *)
(* polls for the end of the forked child.                                  *)
(***************************************************************************)
\* The statuses of the tasks when the client turns to them.
ControlledTasks ==
  {[id1 |-> status, id2 |-> "New"] : status \in {"New", "Running", "Stopped"}}

\* The session after <authenticate> with the credentials of the user: the
\* reply is queued and process_omp_client_input has returned 0.
TaskInit ==
  /\ client_state = "CLIENT_AUTHENTIC"
  /\ command_data = command_data_init
  /\ current_credentials = ValidCredentials
  /\ to_client = bytes(XML_OK("authenticate"))
  /\ to_client_start = 0
  /\ to_client_end = strlen(XML_OK("authenticate"))
  /\ tasks \in ControlledTasks
  /\ owned = {}
  /\ parameters = InitialParameters
  /\ log = << >>
  /\ xml_error = "none"
  /\ proc = "running"
  /\ depth = 0
  /\ logged_in = TRUE
  /\ origin = "CLIENT_TOP"
  /\ last = [op |-> "return", state |-> "CLIENT_AUTHENTIC", name |-> "", branch |-> "ok"]
  /\ sent = << >>
  /\ calls = {}
  /\ wire = << >>
  /\ stream = << >>
  /\ forked = 0
  /\ current_error = 0
  /\ xml_context = "ok"
  /\ input = [active |-> FALSE, rc |-> 0, session |-> 1]
  /\ write_error = NoWriteError

\* init_omp_process that leaves forked as it is.
init_omp_process_keeping(S) == S

\* init_omp_process, omp.c:14809-14827, on the globals of omp.c.
init_omp_process(S) == [S EXCEPT !.forked = 0]

\* The host opens the next session of the process: init_omp_process, which
\* also creates a new parse context.
InitSession ==
  /\ proc = "running"
  /\ ~input.active
  /\ input.session < MaxSessions
  /\ LET S == init_omp_process(Prog)
     IN  /\ client_state' = S.client_state
         /\ command_data' = S.command_data
         /\ current_credentials' = S.current_credentials
         /\ forked' = S.forked
         /\ current_error' = S.current_error
  /\ xml_context' = "ok"
  /\ depth' = 0
  /\ logged_in' = FALSE
  /\ input' = [input EXCEPT !.session = @ + 1]
  /\ last' = [op |-> "init_session", state |-> client_state, name |-> "", branch |-> ""]
  /\ write_error' = NoWriteError
  /\ UNCHANGED <<to_client, to_client_start, to_client_end, tasks, owned, parameters,
                 xml_error, proc, origin, sent, calls, log, wire, stream>>

\* The elements the client opens: a task command between two commands, and
\* an element no command accepts inside one.
TaskElementNames(state) ==
  IF state \in TopStates
    THEN {"DELETE_TASK", "RESUME_OR_START_TASK", "RESUME_STOPPED_TASK", "START_TASK",
          "STOP_TASK"}
    ELSE {"BOGUS"}

TaskStartElement == StartElementOf(TaskElementNames(client_state))

TaskNext == TaskStartElement \/ EndElement \/ Feed \/ Return \/ ProcessChange

TaskSpec == TaskInit /\ [][TaskNext]_vars

(***************************************************************************)
(* Sessions: a process whose host opens one session after another, each    *)
(* client starting tasks.                                                  *)
(***************************************************************************)
SessionNext ==
  \/ StartElementOf(IF client_state \in TopStates THEN {"START_TASK"} ELSE {})
  \/ EndElement
  \/ Feed
  \/ Return
  \/ InitSession

SessionSpec == TaskInit /\ [][SessionNext]_vars

(***************************************************************************)
(* Chunks: the session of Spec, whose host passes the bytes of the client  *)
(* in chunks that end anywhere, inside a command and inside a text too.    *)
(***************************************************************************)
ChunkNext ==
  \/ StartElement
  \/ Text
  \/ EndElement
  \/ Feed
  \/ ReturnIn({client_state})

ChunkSpec == Init /\ [][ChunkNext]_vars

(***************************************************************************)
(* Editing: an authenticated session whose client creates configs and      *)
(* modifies tasks.                                                         *)
(***************************************************************************)
\* The elements the client opens: the two commands between two commands,
\* their children inside them, and an element no command accepts.  A
\* MODIFY_TASK holds at most one ESCALATOR (the ids of several are appended
\* to one another).
EditElementNames(state) ==
  IF state \in TopStates THEN {"CREATE_CONFIG", "MODIFY_TASK"}
  ELSE IF state \in DOMAIN Children
    THEN {"BOGUS"} \cup
         (DOMAIN Children[state] \
            IF command_data[<<"modify_task", "escalator_id">>] = NULL
              THEN {} ELSE {"ESCALATOR"})
  ELSE IF state = "CLIENT_C_C_GCR" THEN {"BOGUS"}
  ELSE {}

EditNext ==
  \/ StartElementOf(EditElementNames(client_state))
  \/ TextOf({"u"})
  \/ EndElement
  \/ Feed
  \/ Return

EditSpec == TaskInit /\ [][EditNext]_vars

(***************************************************************************)
(* Creation: a session that has authenticated, whose client creates tasks. *)
(***************************************************************************)
\* The elements the client opens: CREATE_TASK between two commands while the
\* backend holds no task of an earlier CREATE_TASK, its children (CONFIG and
\* TARGET once each), and an element it does not accept.
CreateElementNames(state) ==
  IF state \in TopStates
    THEN IF NewTask \in DOMAIN tasks /\ tasks[NewTask] # "absent"
           THEN {} ELSE {"CREATE_TASK"}
  ELSE IF state = "CLIENT_CREATE_TASK"
    THEN {"BOGUS", "NAME"}
         \cup (IF command_data[<<"create_task", "config_id">>] = NULL
                 THEN {"CONFIG"} ELSE {})
         \cup (IF command_data[<<"create_task", "target_id">>] = NULL
                 THEN {"TARGET"} ELSE {})
  ELSE {}

CreateNext ==
  \/ StartElementOf(CreateElementNames(client_state))
  \/ TextOf({"u"})
  \/ EndElement
  \/ Feed
  \/ Return

CreateSpec == TaskInit /\ [][CreateNext]_vars

(***************************************************************************)
(* send_to_client on its own: a caller hands it one message after another, *)
(* of any bytes and any length up to MaxMessageLen, and stops at the first *)
(* send that fails.  Here wire and stream run over the whole behaviour.    *)
(***************************************************************************)
\* The bytes of the messages.
Bytes == {"a", "b"}

\* The messages handed to send_to_client.
Messages == UNION {[1..n -> Bytes] : n \in 1..MaxMessageLen}

\* One call of send_to_client (msg, write_to_client, write_to_client_data).
Send ==
  /\ Healthy
  /\ \E msg \in Messages :
       /\ Len(stream) + Len(msg) <= MaxStream
       /\ \E r \in send_to_client(msg, to_client, to_client_start, to_client_end,
                                   MaxWrites) :
            /\ to_client' = r.to_client
            /\ to_client_start' = r.start
            /\ to_client_end' = r.end
            /\ wire' = wire \o r.wire
            /\ stream' = stream \o msg
            /\ xml_error' = IF r.ret = "TRUE" THEN "PARSE" ELSE xml_error
            /\ proc' = IF r.ret = "spin" THEN "spinning" ELSE proc
            /\ last' = [op |-> "send", state |-> client_state, name |-> "",
                        branch |-> r.ret]
  /\ UNCHANGED <<client_state, command_data, current_credentials, tasks, owned,
                 parameters, depth, logged_in, origin, sent, calls, log, forked, current_error, xml_context,
                 input, write_error>>

SendNext == Send

SendSpec == Init /\ [][SendNext]_vars

(***************************************************************************)
(* Properties.                                                             *)
(***************************************************************************)
\* The states of an authenticated session in which no command is open.
AuthenticStates == {"CLIENT_AUTHENTIC", "CLIENT_AUTHENTIC_COMMANDS"}

\* The resource type the id attribute of a command refers to.
ReferencedResource ==
  [CLIENT_DELETE_TASK |-> "task", CLIENT_GET_TASKS |-> "task",
   CLIENT_MODIFY_REPORT |-> "report", CLIENT_VERIFY_AGENT |-> "agent",
   CLIENT_VERIFY_REPORT_FORMAT |-> "report format"]

\* The response elements among the messages of a handler call.
Responses(msgs) ==
  {i \in 1..Len(msgs) : msgs[i].form \in {"empty", "full", "open"}}

\* A checked send of the last start handler call failed.
StartSendFailed == xml_error = "PARSE" /\ last.branch # "default"

\* C1: in a session that has not authenticated, in CLIENT_TOP or inside a
\* COMMANDS wrapper, every opened element other than AUTHENTICATE, COMMANDS and
\* GET_VERSION is rejected: the handler sets the parse error, the state stays
\* outside every command and no backend operation is invoked.
C1_UnauthenticatedRejected ==
  (/\ last.op = "start"
   /\ ~logged_in
   /\ last.state \in {"CLIENT_TOP", "CLIENT_COMMANDS", "CLIENT_AUTHENTIC_COMMANDS"}
   /\ last.name \notin {"AUTHENTICATE", "COMMANDS", "GET_VERSION"})
  => (client_state \in TopStates /\ calls = {} /\ xml_error # "none")

\* C2: closing an AUTHENTICATE opened in CLIENT_TOP whose credentials the
\* backend accepts (the tasks load and the reply is queued) sends exactly
\* <authenticate_response status="200" status_text="OK"/> and leaves
\* CLIENT_AUTHENTIC.
C2_AcceptedAuthenticate ==
  (/\ last.op = "end"
   /\ last.state = "CLIENT_AUTHENTICATE"
   /\ origin = "CLIENT_TOP"
   /\ last.branch = "authenticated"
   /\ xml_error = "none")
  => /\ sent = <<[tag |-> "authenticate_response", status |-> "200",
                  status_text |-> "OK", form |-> "empty"]>>
     /\ client_state = "CLIENT_AUTHENTIC"
     /\ logged_in

C2_Witness ==
  /\ last.op = "end"
  /\ last.branch = "authenticated"
  /\ origin = "CLIENT_TOP"
  /\ xml_error = "none"
  /\ client_state = "CLIENT_AUTHENTIC"
  /\ current_credentials = ValidCredentials

\* C3: closing an AUTHENTICATE whose credentials the backend rejects (the
\* reply is queued) sends exactly <authenticate_response status="400"
\* status_text="Authentication failed"/> and leaves CLIENT_TOP with the
\* credentials freed.
C3_RejectedAuthenticate ==
  (/\ last.op = "end"
   /\ last.state = "CLIENT_AUTHENTICATE"
   /\ last.branch = "rejected"
   /\ xml_error = "none")
  => /\ sent = <<[tag |-> "authenticate_response", status |-> "400",
                  status_text |-> "Authentication failed", form |-> "empty"]>>
     /\ client_state = "CLIENT_TOP"
     /\ current_credentials = free_credentials
     /\ ~logged_in

C3_Witness ==
  /\ last.op = "end"
  /\ last.state = "CLIENT_AUTHENTICATE"
  /\ last.branch = "rejected"
  /\ xml_error = "none"
  /\ Len(sent) = 1
  /\ client_state = "CLIENT_TOP"

\* C4: a step that opens a COMMANDS wrapper, or closes one, leaves the
\* authentication status as it was: the state is authentic after the step
\* exactly when it was before, and the login and the credentials are unchanged.
C4_CommandsKeepsAuthentication ==
  [][((\/ (depth' = depth + 1 /\ last'.name = "COMMANDS")
       \/ (depth' = depth - 1 /\ last'.branch = "commands"))
      /\ client_state \in TopStates)
     => /\ (client_state' \in AuthenticStates) = (client_state \in AuthenticStates)
        /\ (client_state' \in TopStates)
        /\ logged_in' = logged_in
        /\ current_credentials' = current_credentials]_vars

C4_Witness ==
  /\ last.op = "end"
  /\ last.branch = "commands"
  /\ last.state = "CLIENT_AUTHENTIC_COMMANDS"
  /\ client_state = "CLIENT_AUTHENTIC_COMMANDS"
  /\ logged_in
  /\ xml_error = "none"

\* C5: when a start handler is given an element its state does not accept
\* (and its sends succeed), it sends exactly one response element, with status
\* 400 and, inside a command, the tag of the owning command, and the state
\* becomes one in which no command is open.
C5_BogusElementRejected ==
  (/\ last.op = "start"
   /\ last.branch # "accept"
   /\ ~(last.name = "AUTHENTICATE" /\ last.state \in AuthenticStates)
   /\ ~StartSendFailed)
  => /\ Cardinality(Responses(sent)) = 1
     /\ sent[1].status = "400"
     /\ last.state \in DOMAIN OwningCommand
          => sent[1].tag = OwningCommand[last.state] \o "_response"
     /\ client_state \in TopStates
     /\ proc = "running"

\* C6: after the end handler has run for a command root other than
\* AUTHENTICATE, the state is CLIENT_AUTHENTIC, whatever the validation, the
\* lookup, the backend call and the sends did.
C6_CommandRootLeavesAuthentic ==
  (last.op = "end" /\ last.state \in CommandRootStates \ {"CLIENT_AUTHENTICATE"})
  => client_state = "CLIENT_AUTHENTIC"

\* C7: whenever no command is open, every field of the staging area is
\* cleared, whether the last command ended in success or in a failure.
C7_StagingCleared ==
  client_state \in TopStates => command_data = command_data_init

\* C8: closing a command root (the sends succeeding, the process running)
\* sends exactly one response element.
C8_OneResponse ==
  (/\ last.op = "end"
   /\ last.state \in CommandRootStates
   /\ xml_error = "none"
   /\ proc = "running")
  => Cardinality(Responses(sent)) = 1

\* C9: when the lookup of the resource a command refers to succeeds and finds
\* nothing, the handler sends one response with status 404 whose text is
\* "Failed to find <type> '<id>'", <type> being the type of the resource the
\* command refers to.
C9_NotFoundNamesResource ==
  (/\ last.op = "end"
   /\ last.branch = "not_found"
   /\ xml_error = "none")
  => /\ Len(sent) >= 1
     /\ sent[1].status = "404"
     /\ sent[1].status_text \in
          {"Failed to find " \o ReferencedResource[last.state] \o " '" \o id \o "'"
           : id \in Ids}

\* C10: closing <get_tasks task_id="not-a-real-id"/>, no task having that id
\* (the lookup itself and the send succeeding), sends exactly
\* <get_tasks_response status="404" status_text="Failed to find task
\* 'not-a-real-id'"/>, and no task iterator is opened.
C10_GetTasksNotFound ==
  [][(/\ client_state = "CLIENT_GET_TASKS"
      /\ command_data[<<"get_tasks", "task_id">>] = "not-a-real-id"
      /\ depth' = depth - 1
      /\ last'.branch # "find_failed"
      /\ xml_error' = "none")
     => /\ sent' = <<[tag |-> "get_tasks_response", status |-> "404",
                      status_text |-> "Failed to find task 'not-a-real-id'",
                      form |-> "empty"]>>
        /\ "init_task_iterator" \notin calls'
        /\ client_state' = "CLIENT_AUTHENTIC"]_vars

C10_Witness ==
  /\ last.op = "end"
  /\ last.state = "CLIENT_GET_TASKS"
  /\ last.branch = "not_found"
  /\ logged_in
  /\ Len(sent) = 1
  /\ sent[1].status_text = "Failed to find task 'not-a-real-id'"

\* C11: while no send has failed, the bytes the write callback wrote followed
\* by the bytes still queued are the bytes of the messages sent, in order; and
\* whatever the sends did, they are a prefix of them.
C11_NoByteLostOrReordered ==
  LET out == wire \o Queued
  IN  /\ Len(out) <= Len(stream)
      /\ out = SubSeq(stream, 1, Len(out))
      /\ (xml_error = "none" /\ proc = "running") => out = stream

C11_Witness ==
  /\ last.op = "send"
  /\ last.branch = "FALSE"
  /\ xml_error = "none"
  /\ Len(stream) > TO_CLIENT_BUFFER_SIZE + 1
  /\ wire # << >>
  /\ Queued # << >>
  /\ wire \o Queued = stream

\* C12: in every state the cursors of to_client satisfy
\* 0 <= to_client_start <= to_client_end <= TO_CLIENT_BUFFER_SIZE, and
\* to_client holds to_client_end bytes.
C12_CursorsInRange ==
  /\ 0 <= to_client_start
  /\ to_client_start <= to_client_end
  /\ to_client_end <= TO_CLIENT_BUFFER_SIZE
  /\ Len(to_client) = to_client_end

C12_Witness ==
  /\ last.op = "end"
  /\ 0 < to_client_start
  /\ to_client_start < to_client_end
  /\ to_client_end = TO_CLIENT_BUFFER_SIZE

\* C13: send_to_client never stays in its loop: when the write callback
\* returns without having freed any space, the send ends with an error.
C13_SendTerminates ==
  proc # "spinning"

\* C14: when the write callback reports an error during a send of a handler
\* call, the handler stops with the parse error set and queues nothing after
\* the failure, and the call of process_omp_client_input in which this
\* happened returns -1.
C14_WriteErrorIsFatal ==
  [][/\ (input'.active /\ write_error'.failed)
          => (xml_error' = "PARSE" /\ ~write_error'.queued_after)
     /\ (write_error.failed /\ input.active /\ ~input'.active)
          => input'.rc = -1]_vars

\* C15 as stated: a checked send that failed on the write callback leaves
\* the session able to process the commands that follow.
C15_SessionSurvivesWriteError ==
  (write_error.checked /\ proc = "running" /\ input.active) => Parsing

\* C15: a checked send that fails on the write callback ends the session.
\* The handler sets the parse error; from then on no handler runs, nothing is
\* queued and no program state changes, and the active call and every later
\* call of process_omp_client_input return -1.
C15_WriteErrorEndsSession ==
  [][/\ write_error'.checked
          => (xml_error' = "PARSE" \/ xml_context' = "error")
     /\ write_error.checked
          => /\ UNCHANGED <<client_state, command_data, current_credentials, tasks,
                            to_client, to_client_start, to_client_end, depth,
                            forked, proc>>
             /\ ~input'.active => input'.rc = -1]_vars

\* A call made after the write error has returned.
C15_Witness ==
  /\ write_error.checked
  /\ last.op = "return"
  /\ last.branch = "again"
  /\ ~input.active
  /\ input.rc = -1
  /\ xml_context = "error"

\* The states in which a command that starts or resumes a task is open, and
\* the member of command_data each stages its task id in.
RunCommands ==
  [CLIENT_RESUME_OR_START_TASK |-> "resume_or_start_task",
   CLIENT_RESUME_STOPPED_TASK |-> "resume_stopped_task",
   CLIENT_START_TASK |-> "start_task"]

\* The end handler of the open command has run to its end on a task the
\* backend holds: it called `operation`, and neither the process nor a send
\* failed.
Handled(member, operation) ==
  /\ command_data[<<member, "task_id">>] \in TaskIds
  /\ last'.op = "end"
  /\ operation \in calls'
  /\ proc' = "running"
  /\ ~write_error'.failed

\* C16: the reply to START_TASK for a task that is running carries the
\* status 409 (busy).
C16_RunningIsBusy ==
  [][(/\ client_state = "CLIENT_START_TASK"
      /\ Handled("start_task", "start_task")
      /\ tasks[command_data[<<"start_task", "task_id">>]] = "Running")
       => (/\ Len(sent') = 1
           /\ sent'[1].status = STATUS_ERROR_BUSY)]_vars

\* C17: a start or resume that arrives while a fork of this process is
\* outstanding is answered with the status 409 (busy), and it starts nothing:
\* the tasks and the owned task stay as they are.
C17_SecondStartIsBusy ==
  [][(/\ client_state \in DOMAIN RunCommands
      /\ Handled(RunCommands[client_state], RunCommands[client_state])
      /\ owned # {})
       => (/\ Len(sent') = 1
           /\ sent'[1].status = STATUS_ERROR_BUSY
           /\ tasks' = tasks
           /\ owned' = owned)]_vars

C19_StartIsRequested ==
  [][LET id == command_data[<<"start_task", "task_id">>]
     IN  (/\ client_state = "CLIENT_START_TASK"
          /\ Handled("start_task", "start_task")
          /\ tasks[id] \in {"New", "Stopped"}
          /\ id \in owned'
          /\ current_error' = 0)
           => (/\ Len(sent') = 1
               /\ sent'[1].tag = "start_task_response"
               /\ sent'[1].status = STATUS_OK_REQUESTED
               /\ sent'[1].status_text = STATUS_OK_REQUESTED_TEXT
               /\ sent'[1].report_id = ReportOf[id]
               /\ tasks'[id] = "Requested"
               /\ forked' = 1
               /\ client_state' = "CLIENT_AUTHENTIC")]_vars

\* START_TASK has started the first task and named its report.
C19_Witness ==
  /\ last.op = "end"
  /\ last.state = "CLIENT_START_TASK"
  /\ Len(sent) = 1
  /\ sent[1].status = STATUS_OK_REQUESTED
  /\ sent[1].report_id = "report1"
  /\ tasks["id1"] = "Requested"
  /\ owned = {"id1"}
  /\ forked = 1

\* C20: DELETE_TASK removes a task that is idle and answers 200; it flags a
\* task that is active for deletion and answers 202.
C20_DeleteStatus ==
  [][LET id == command_data[<<"delete_task", "task_id">>]
     IN  (/\ client_state = "CLIENT_DELETE_TASK"
          /\ Handled("delete_task", "request_delete_task"))
           => /\ tasks[id] \in {"New", "Stopped", "Done"}
                   => (/\ Len(sent') = 1
                       /\ sent'[1].status = STATUS_OK
                       /\ tasks'[id] = "absent")
              /\ task_is_active(tasks[id])
                   => (/\ Len(sent') = 1
                       /\ sent'[1].status = STATUS_OK_REQUESTED
                       /\ tasks'[id] = "DeleteRequested")]_vars

\* The task this process started was flagged for deletion.
C20_Witness ==
  /\ last.op = "end"
  /\ last.state = "CLIENT_DELETE_TASK"
  /\ Len(sent) = 1
  /\ sent[1].status = STATUS_OK_REQUESTED
  /\ tasks["id1"] = "DeleteRequested"
  /\ owned = {"id1"}

\* C21: the reply to STOP_TASK for a task the backend holds carries the status
\* 202 (requested), never the status of a stop that is done.
C21_StopIsRequested ==
  [][(/\ client_state = "CLIENT_STOP_TASK"
      /\ Handled("stop_task", "stop_task"))
       => (/\ Len(sent') = 1
           /\ sent'[1].status = STATUS_OK_REQUESTED)]_vars

\* C22: forked is 0 right after the initialisation of a session, and both
\* forked and current_error are 0 when the first call of
\* process_omp_client_input of the session starts to parse, which is before
\* any code of the session reads them.
C22_ForkStateReset ==
  /\ last.op = "init_session" => forked = 0
  /\ (last.op = "init_session" /\ input.active) => (forked = 0 /\ current_error = 0)

\* The first call of a session has begun, after a session that ended in the
\* forked child with forked and current_error set.
C22_Witness ==
  /\ last.op = "init_session"
  /\ input.active
  /\ input.session = 2
  /\ input.rc = 2

\* C23: right after the initialisation of a session the element state is
\* CLIENT_TOP, the staging area and the credentials are empty and nothing is
\* queued for the client.
C23_NothingSharedAcrossSessions ==
  (last.op = "init_session" /\ ~input.active)
    => (/\ client_state = "CLIENT_TOP"
        /\ command_data = command_data_init
        /\ current_credentials = free_credentials
        /\ to_client_start = 0
        /\ to_client_end = 0)

\* C24: a reply that reports a missing or ill-formed field of a command is
\* queued only by the handler of the close of that command's root element,
\* never by the handler of an open, a text or a nested close.
C24_ValidationAtRootClose ==
  \A i \in 1..Len(sent) :
    (/\ sent[i].status = STATUS_ERROR_SYNTAX
     /\ sent[i].status_text \in
          {"DELETE_TASK requires a task_id attribute",
           "MODIFY_REPORT requires a report_id attribute",
           "MODIFY_REPORT requires a COMMENT element",
           "VERIFY_AGENT requires a agent_id attribute",
           "VERIFY_REPORT_FORMAT requires a report_format_id attribute"})
      => last.op = "end" /\ last.state \in CommandRootStates

\* A MODIFY_REPORT that lacks its COMMENT element is answered when
\* MODIFY_REPORT closes.
C24_Witness ==
  /\ last.op = "end"
  /\ last.state = "CLIENT_MODIFY_REPORT"
  /\ last.branch = "missing_comment"
  /\ Len(sent) = 2
  /\ sent[1].status_text = "MODIFY_REPORT requires a COMMENT element"

\* C25: a command root that closes with a required id attribute or a
\* required element missing is answered with status 400.
C25_ValidationFailureIsSyntax ==
  (/\ last.op = "end"
   /\ last.state \in CommandRootStates
   /\ last.branch \in {"missing_id", "missing_comment"}
   /\ sent # << >>)
    => sent[1].status = STATUS_ERROR_SYNTAX

\* C26: a command that passes validation and is answered with success has
\* invoked exactly one backend operation, the lookups of the resources it
\* names not counted.
C26_OneBackendOperation ==
  (/\ last.op = "end"
   /\ last.state \in CommandRootStates
   /\ sent # << >>
   /\ sent[1].status \in {STATUS_OK, STATUS_OK_CREATED, STATUS_OK_REQUESTED})
    => Cardinality(calls \ {"find_task", "find_config", "find_escalator"}) = 1

\* C27 as stated: a CREATE_CONFIG that closes with both a copy and an rcfile
\* staged, or with neither, is answered with status 400 and creates no
\* config, unless the backend reports an internal error.
C27_CopyXorRcfile ==
  [][(/\ client_state = "CLIENT_CREATE_CONFIG"
      /\ (command_data[<<"create_config", "copy">>] = NULL)
           = (command_data[<<"create_config", "rcfile">>] = NULL)
      /\ last'.op = "end"
      /\ last'.branch # "create_failed"
      /\ proc' = "running"
      /\ ~write_error'.failed)
       => (/\ Len(sent') = 1
           /\ sent'[1].status = STATUS_ERROR_SYNTAX
           /\ last'.branch # "created")]_vars

\* C27 amended: a CREATE_CONFIG without a GET_CONFIGS_RESPONSE element that
\* closes with both a copy and an rcfile staged, or with neither, is answered
\* with status 400 and calls no backend operation.
C27_CopyXorRcfileWithoutImport ==
  [][(/\ client_state = "CLIENT_CREATE_CONFIG"
      /\ command_data[<<"create_config", "import">>] = "0"
      /\ (command_data[<<"create_config", "copy">>] = NULL)
           = (command_data[<<"create_config", "rcfile">>] = NULL)
      /\ last'.op = "end"
      /\ proc' = "running"
      /\ ~write_error'.failed)
       => (/\ Len(sent') = 1
           /\ sent'[1].status = STATUS_ERROR_SYNTAX
           /\ calls' = {})]_vars

\* A CREATE_CONFIG with a name, and with both COPY and RCFILE or neither,
\* has been answered.
C27_Witness ==
  /\ last.op = "end"
  /\ last.state = "CLIENT_CREATE_CONFIG"
  /\ last.branch = "copy_or_rcfile"
  /\ Len(sent) = 1
  /\ sent[1].status_text = "CREATE_CONFIG requires either a COPY or an RCFILE element"
  /\ calls = {}

C29_OneLogEntry ==
  [][\A id \in Ids :
       (/\ \/ /\ client_state = "CLIENT_DELETE_TASK"
               /\ command_data[<<"delete_task", "task_id">>] = id
            \/ /\ client_state = "CLIENT_MODIFY_REPORT"
               /\ command_data[<<"modify_report", "report_id">>] = id
        /\ last'.op = "end"
        /\ proc' = "running")
         => (/\ Len(log') = 1
             /\ log'[1].id = id)]_vars

\* C30: when a handler has passed a failed assertion in a build without
\* assertions, at the default of a switch or at the end of an element in
\* CLIENT_TOP, it has queued one reply, of status 500.
C30_UnreachableIsInternal ==
  (/\ last.op \in {"start", "end"}
   /\ last.branch \in {"default", "top"}
   /\ proc = "running")
    => (/\ Len(sent) = 1
        /\ sent[1].status = STATUS_INTERNAL_ERROR)

\* C31: the end of a chunk and the start of the next one, wherever in the
\* stream they fall, leave what the handlers read and write as it is (the
\* element state, the staged data, the credentials, the queued replies, the
\* backend, forked and current_error), and a text passed in two pieces
\* stages what the text passed in one piece stages; so the replies and the
\* final state do not depend on the chunks.
C31_ChunksAreInvisible ==
  /\ [](\A a, b \in {"u", "p"} :
          omp_xml_handle_text(omp_xml_handle_text(Prog, a), b)
            = omp_xml_handle_text(Prog, a \o b))
  /\ [][(/\ xml_context' = "ok"
         /\ input'.active # input.active)
          => UNCHANGED <<client_state, command_data, current_credentials, to_client,
                         to_client_start, to_client_end, tasks, owned, parameters,
                         forked, current_error, depth>>]_vars

\* A chunk has ended inside the text of USERNAME, and the next has begun.
C31_Witness ==
  /\ client_state = "CLIENT_AUTHENTICATE_CREDENTIALS_USERNAME"
  /\ current_credentials.username = "u"
  /\ last.op = "return"
  /\ last.branch = "ok"
  /\ input.active

\* C32: the state machine is in CLIENT_AUTHENTIC or CLIENT_AUTHENTIC_COMMANDS
\* only if the backend accepted an AUTHENTICATE of the current session: no
\* input without a successful authentication, GET_VERSION included, reaches
\* an authenticated state.
C32_AuthenticOnlyAfterLogin ==
  client_state \in AuthenticStates => logged_in

\* C33: the COMMANDS wrapper is transparent before login: an element that
\* CLIENT_TOP accepts (AUTHENTICATE, COMMANDS, GET_VERSION) and that is opened
\* in CLIENT_COMMANDS is accepted too, and enters the state it enters from
\* CLIENT_TOP.
C33_CommandsTransparent ==
  (/\ last.op = "start"
   /\ last.state = "CLIENT_COMMANDS"
   /\ last.name \in {"AUTHENTICATE", "COMMANDS", "GET_VERSION"}
   /\ ~StartSendFailed)
  => LET top == omp_xml_handle_start_element(
                  [Prog EXCEPT !.client_state = "CLIENT_TOP", !.xml_error = "none"],
                  last.name, NoAttributes)
     IN  /\ xml_error = "none"
         /\ client_state \in {p.post.client_state : p \in top}

\* C34: no assert (0) of the start or the end handler is reached: the end
\* handler is never entered in CLIENT_TOP, and neither handler is entered in a
\* state its switch has no case for.
C34_NoAssertReached ==
  /\ last.branch \notin {"assert", "default", "top"}
  /\ last.op = "end" => last.state # "CLIENT_TOP"

\* C35: the commands_response tags are balanced.  Between two commands every
\* open element is a COMMANDS whose <commands_response> has been queued, so the
\* end of an element there queues exactly the matching </commands_response>,
\* and a start handler queues the close tag only inside an open wrapper.
C35_CommandsResponseBalanced ==
  [][/\ (/\ last'.op = "end"
         /\ client_state \in TopStates
         /\ xml_error' = "none")
        => sent' = <<ResponseClose("commands")>>
     /\ (/\ last'.op = "start"
         /\ \E i \in 1..Len(sent') : sent'[i] = ResponseClose("commands"))
        => depth > 0]_vars

\* C37: MODIFY_TASK is all or nothing: when the reply its end handler queues
\* is not the OK reply, no field of any task has changed.
C37_ModifyTaskAllOrNothing ==
  [][(/\ client_state = "CLIENT_MODIFY_TASK"
      /\ last'.op = "end"
      /\ Len(sent') = 1
      /\ sent'[1].status # STATUS_OK)
       => parameters' = parameters]_vars

\* C38: a forked child never forks again.  A call that returned the status of
\* a child (2 or -10) has set forked to 2; with forked at 2 the end handler of
\* a start or resume command never calls the backend operation of the command,
\* and no handler step taken with forked at 2 has called it.
C38_ChildNeverForks ==
  /\ [](input.rc \in {2, -10} => forked = 2)
  /\ [](client_state \in DOMAIN RunCommands
          => \A p \in omp_xml_handle_end_element([Prog EXCEPT !.forked = 2]) :
               RunCommands[client_state] \notin p.calls)
  /\ [][(forked = 2 /\ last'.op \in {"start", "end"})
          => calls' \cap {RunCommands[state] : state \in DOMAIN RunCommands} = {}]_vars

\* The child has returned its status, and the host has called again.
C38_Witness ==
  /\ forked = 2
  /\ last.op = "return"
  /\ last.branch = "again"
  /\ input.rc = -1

\* C39: when the backend call of a start or resume command reports the
\* outcome of a forked child (2 or -10), the end handler queues no reply, and
\* the call of process_omp_client_input that ran it returns that outcome.
C39_ChildOutcomeReturned ==
  /\ []((last.op = "end" /\ last.branch = "child")
         => (/\ sent = << >>
             /\ current_error \in {2, -10}
             /\ xml_error = "INVALID_CONTENT"))
  /\ [][(/\ last.op = "end"
         /\ last.branch = "child"
         /\ last'.op = "return")
          => (/\ input'.rc = current_error
              /\ UNCHANGED <<to_client, to_client_start, to_client_end>>)]_vars

\* The call has returned the success of the child to the host.
C39_Witness ==
  /\ last.op = "return"
  /\ last.branch = "error"
  /\ input.rc = 2
  /\ current_error = 2

\* C40: process_omp_client_input returns 3 only for input in which a start
\* or resume command succeeded: a call that returns 3 has run a handler, and a
\* call whose input held no element at all returns 0.
C40_ForkedOnlyForItsChunk ==
  [][(last'.op = "return" /\ input'.rc = 3) => last.op \in {"start", "end"}]_vars

\* C36: a CREATE_TASK that does not end with the 201 reply leaves no task in
\* the backend: when a handler ends the command, by a reply or by rejecting
\* an element, without a failed send, the task made when the element opened
\* is gone unless the reply is 201.
C36_NoTaskLeftBehind ==
  [][(/\ command_data[<<"create_task", "task">>] = NewTask
      /\ last'.op \in {"start", "end"}
      /\ proc' = "running"
      /\ client_state' \in TopStates
      /\ xml_error' # "PARSE"
      /\ ~(Len(sent') = 1 /\ sent'[1].status = STATUS_OK_CREATED))
       => tasks'[NewTask] = "absent"]_vars
====
